------------------------ MODULE KeywordRepairs_proofs ------------------------
(***************************************************************************)
(* What an undisturbed pause and an undisturbed sync establish, for every  *)
(* number of keywords, rules and threads.                                  *)
(***************************************************************************)
EXTENDS KeywordSync_proofs

-----------------------------------------------------------------------------
(* The pause.  A thread nothing disturbed is the only one running, so no   *)
(* other thread moves between its steps, and a pause that is on its way    *)
(* has silenced the provider behind it and knows what is left to halt.     *)

Busy(t) == task[t].at \notin {"idle", "due"}

Silent(svc) == \A r \in RulesOf(svc) : ~remote[svc][r].active

PauseProgress(t) ==
  /\ task[t].at \in {"list", "write"} /\ task[t].svc = "postzen" => Silent("zernio")
  /\ task[t].at = "write" => /\ task[t].jobs = {}
                             /\ \A r \in RulesOf(task[t].svc) :
                                  remote[task[t].svc][r].active => r \in task[t].halts
  /\ task[t].at = "done" => Silent("zernio") /\ Silent("postzen")

PauseInv ==
  /\ TypeOK
  /\ \A t \in Tasks : Busy(t) /\ t \notin disturbed
       => /\ \A u \in Tasks : Busy(u) => u = t
          /\ task[t].kind = "pause" => PauseProgress(t)

LEMMA PauseInit == Init => PauseInv
  BY TypeInit DEF Init, PauseInv, Busy, Idle

(* Steps that disturb whatever runs and start nothing.                     *)
LEMMA DisturbingStep ==
  ASSUME PauseInv, TypeOK', Running \subseteq disturbed',
         \A t \in Tasks : Busy(t)' => Busy(t)
  PROVE  PauseInv'
  BY DEF PauseInv, Running, Busy

(* A step of a running thread: what it does not disturb is itself.         *)
LEMMA OwnStep ==
  ASSUME PauseInv, TypeOK', NEW t \in Tasks, Busy(t),
         \A u \in Tasks \ {t} : task'[u] = task[u],
         \A u \in Tasks : u \notin disturbed' /\ u # t => u \notin disturbed,
         Busy(t)' /\ t \notin disturbed'
           => /\ t \notin disturbed
              /\ task'[t].kind = "pause" => PauseProgress(t)'
  PROVE  PauseInv'
<1>1. ASSUME NEW u \in Tasks, Busy(u)', u \notin disturbed', u # t
      PROVE  FALSE
  BY <1>1 DEF PauseInv, Busy
<1>2. ASSUME Busy(t)', t \notin disturbed', NEW u \in Tasks, Busy(u)'
      PROVE  u = t
  BY <1>2 DEF PauseInv, Busy
<1> QED
  BY <1>1, <1>2 DEF PauseInv

LEMMA RequestPauses == ASSUME PauseInv, TypeOK', Request PROVE PauseInv'
<1>1. PICK kind \in Kinds : Edit(kind)
  BY DEF Request, CreateKeyword, UpdateKeyword, ToggleKeyword, DeleteKeyword, UpdateProduct,
         UpdateSettings, RestoreBackup, SyncByHand, Kinds, Syncs
<1>2. PICK t \in Tasks : task[t] = Idle /\ task' = [task EXCEPT ![t] = Due(kind)]
  BY <1>1 DEF Edit, Schedule
<1>3. \A u \in Tasks : Busy(u)' => Busy(u)
  BY <1>2 DEF PauseInv, TypeOK, Due, Busy
<1> QED
  BY <1>1, <1>3, DisturbingStep DEF Edit

LEMMA StartPauses == ASSUME PauseInv, TypeOK', NEW t \in Tasks, Start(t) PROVE PauseInv'
<1>1. task \in [Tasks -> Activity] /\ disturbed \subseteq Tasks
  BY DEF PauseInv, TypeOK
<1>2. /\ \A u \in Tasks \ {t} : task'[u] = task[u]
      /\ task'[t].at = "list"
      /\ task'[t].kind = "pause" => task'[t].svc = "zernio"
  BY <1>1 DEF Start, Become
<1>3. CASE Running = {}
  <2>1. \A u \in Tasks : Busy(u)' => u = t
    BY <1>2, <1>3 DEF Busy, Running
  <2>2. task'[t].kind = "pause" => PauseProgress(t)'
    BY <1>2 DEF PauseProgress
  <2> QED
    BY <2>1, <2>2 DEF PauseInv
<1>4. CASE Running # {}
  <2>1. disturbed' = disturbed \cup Running \cup {t}
    BY <1>4 DEF Start
  <2>2. \A u \in Tasks : Busy(u)' => u \in disturbed'
    BY <1>2, <2>1 DEF Running, Busy
  <2> QED
    BY <2>2 DEF PauseInv
<1> QED
  BY <1>3, <1>4

Writing == [at : {"write"}, kind : Kinds, svc : Providers, gate : BOOLEAN,
            price : Prices \cup {None}, jobs : SUBSET Job, halts : SUBSET Rids]

LEMMA WritingType ==
  ASSUME TypeOK, NEW t \in Tasks, task[t].at = "write"
  PROVE  task[t] \in Writing
  BY DEF TypeOK, Activity, Idle, Writing

(* Syncs only matter in that they are not pauses.                          *)
LEMMA SyncPauses ==
  ASSUME PauseInv, TypeOK', NEW t \in Tasks,
         \/ List(t) \/ ListFails(t) \/ ReadKeywords(t)
         \/ \E j \in Jobs(t) : DeleteForReset(t, j) \/ CreateRule(t, j) \/ PatchRule(t, j)
  PROVE  PauseInv'
<1> USE DEF NoFault, Fault, Become, Syncs
<1>0. task \in [Tasks -> Activity] /\ Running \subseteq Tasks
  BY DEF PauseInv, TypeOK, Running
<1>1. CASE List(t) \/ ListFails(t)
  <2>1. Busy(t) /\ task'[t].kind = task[t].kind /\ task[t].kind # "pause"
    BY <1>0, <1>1 DEF List, ListFails, Busy
  <2>2. \A u \in Tasks : u \notin disturbed' => u \notin disturbed
    BY <1>1 DEF List, ListFails
  <2> QED
    BY <1>0, <1>1, <2>1, <2>2, OwnStep DEF List, ListFails
<1>2. CASE ReadKeywords(t)
  <2>1. Busy(t) /\ task[t].kind # "pause"
    BY <1>2, HeldType DEF ReadKeywords, Busy, PauseInv
  <2>2. PICK a : task' = [task EXCEPT ![t] = a] /\ a.kind = task[t].kind
    BY <1>2 DEF ReadKeywords
  <2>3. task'[t].kind # "pause" /\ \A u \in Tasks \ {t} : task'[u] = task[u]
    BY <1>0, <2>1, <2>2
  <2>4. disturbed' = disturbed
    BY <1>2 DEF ReadKeywords
  <2> QED
    BY <2>1, <2>3, <2>4, OwnStep
<1>3. ASSUME NEW j \in Jobs(t), DeleteForReset(t, j) \/ CreateRule(t, j) \/ PatchRule(t, j)
      PROVE  PauseInv'
  <2>1. Busy(t) /\ task[t].at = "write" /\ j \in task[t].jobs
    BY <1>3 DEF DeleteForReset, CreateRule, PatchRule, Busy, Jobs
  <2>2. /\ task'[t].kind = task[t].kind
        /\ \A u \in Tasks \ {t} : task'[u] = task[u]
    <3>1. task[t] \in Writing
      BY <2>1, WritingType DEF PauseInv
    <3>2. CASE DeleteForReset(t, j)
      BY <1>0, <3>1, <3>2 DEF DeleteForReset, Writing
    <3>3. CASE CreateRule(t, j) \/ PatchRule(t, j)
      BY <1>0, <3>1, <3>3 DEF CreateRule, PatchRule, JobEnds, Writing
    <3> QED
      BY <1>3, <3>2, <3>3
  <2>3. disturbed' = disturbed \/ disturbed' = disturbed \cup Running
    BY <1>3 DEF DeleteForReset, CreateRule, PatchRule
  <2>4. task'[t].kind = "pause" => t \in disturbed
    BY <1>0, <2>1, <2>2 DEF PauseInv, PauseProgress
  <2> QED
    BY <2>1, <2>2, <2>3, <2>4, OwnStep
<1> QED
  BY <1>1, <1>2, <1>3

(* One rule is halted, or turns out to be gone.                            *)
LEMMA HaltPauses ==
  ASSUME PauseInv, TypeOK', NEW t \in Tasks, NEW r \in Halts(t), HaltRule(t, r)
  PROVE  PauseInv'
<1>0. task \in [Tasks -> Activity] /\ remote \in [Providers -> [Rids -> Rule \cup {None}]]
  BY DEF PauseInv, TypeOK
<1>1. Busy(t) /\ task[t] \in Writing /\ r \in task[t].halts
  BY WritingType DEF HaltRule, Busy, PauseInv
<1>s. PICK svc \in Providers : svc = task[t].svc
  BY <1>1 DEF Writing
<1>2. /\ \A u \in Tasks \ {t} : task'[u] = task[u]
      /\ task'[t] = [task[t] EXCEPT !.halts = @ \ {r}]
  BY <1>0 DEF HaltRule
<1>3. /\ task'[t].at = "write" /\ task'[t].kind = task[t].kind /\ task'[t].svc = svc
      /\ task'[t].jobs = task[t].jobs /\ task'[t].halts = task[t].halts \ {r}
  BY <1>1, <1>2, <1>s DEF Writing
<1>4. CASE Fault
  BY <1>1, <1>2, <1>4, OwnStep DEF Fault, PauseInv, Running, Busy
<1>5. ASSUME NoFault, t \notin disturbed, task[t].kind = "pause"
      PROVE  PauseProgress(t)'
  <2>1. PauseProgress(t)
    BY <1>1, <1>5 DEF PauseInv
  <2>2. svc \in Providers /\ r \in Rids
    BY <1>1 DEF Writing
  <2>3. /\ \A c \in Providers \ {svc} : remote'[c] = remote[c]
        /\ \A q \in Rids \ {r} : remote'[svc][q] = remote[svc][q]
        /\ remote'[svc][r] # None => ~remote'[svc][r].active
    <3>1. CASE r \in RulesOf(svc) /\ remote' = [remote EXCEPT ![svc][r].active = FALSE]
      <4>1. remote[svc][r] \in Rule
        BY <1>0, <2>2, <3>1 DEF RulesOf
      <4>2. /\ remote'[svc][r] = [remote[svc][r] EXCEPT !.active = FALSE]
            /\ \A c \in Providers \ {svc} : remote'[c] = remote[c]
            /\ \A q \in Rids \ {r} : remote'[svc][q] = remote[svc][q]
        BY <1>0, <2>2, <3>1
      <4>3. ~remote'[svc][r].active
        BY <4>1, <4>2 DEF Rule
      <4> QED
        BY <4>2, <4>3
    <3>2. CASE r \notin RulesOf(svc) /\ UNCHANGED remote
      BY <2>2, <3>2 DEF RulesOf
    <3>3. ~Fault
      BY <1>5 DEF NoFault, Fault, PauseInv, TypeOK
    <3>4. \/ r \in RulesOf(svc) /\ remote' = [remote EXCEPT ![svc][r].active = FALSE]
          \/ r \notin RulesOf(svc) /\ UNCHANGED remote
      BY <1>s, <3>3 DEF HaltRule
    <3> QED
      BY <3>1, <3>2, <3>4
  <2>4. svc = "postzen" => Silent("zernio")'
    <3> SUFFICES ASSUME svc = "postzen" PROVE Silent("zernio")'
      OBVIOUS
    <3>1. Silent("zernio")
      BY <1>s, <2>1 DEF PauseProgress, HaltRule
    <3>2. remote'["zernio"] = remote["zernio"]
      BY <2>3 DEF Providers
    <3> QED
      BY <3>1, <3>2 DEF Silent, RulesOf
  <2>5. \A q \in Rids : remote'[svc][q] # None /\ remote'[svc][q].active
                            => q \in task'[t].halts
    <3>1. \A q \in Rids : remote[svc][q] # None /\ remote[svc][q].active
                             => q \in task[t].halts
      BY <1>1, <1>s, <2>1 DEF PauseProgress, RulesOf, Busy, HaltRule
    <3> QED
      BY <1>3, <2>3, <3>1
  <2>6. task'[t].jobs = {}
    BY <1>3, <1>1 DEF HaltRule
  <2> QED
    BY <1>3, <2>4, <2>5, <2>6 DEF PauseProgress, RulesOf
<1>6. CASE NoFault
  BY <1>1, <1>2, <1>3, <1>5, <1>6, OwnStep DEF NoFault
<1> QED
  BY <1>4, <1>6 DEF HaltRule

LEMMA ListPauses == ASSUME PauseInv, TypeOK', NEW t \in Tasks, ListForPause(t) PROVE PauseInv'
<1>0. task \in [Tasks -> Activity]
  BY DEF PauseInv, TypeOK
<1>1. Busy(t) /\ task[t].svc \in Providers
  BY HeldType DEF ListForPause, Busy, PauseInv
<1>2. PICK halts \in SUBSET Rids :
        /\ \/ /\ halts = {r \in RulesOf(task[t].svc) : remote[task[t].svc][r].active}
              /\ NoFault
           \/ /\ halts = {}
              /\ Fault
        /\ Become(t, [at |-> "write", kind |-> "pause", svc |-> task[t].svc, gate |-> FALSE,
                      price |-> None, jobs |-> {}, halts |-> halts])
  BY DEF ListForPause
<1>3. /\ \A u \in Tasks \ {t} : task'[u] = task[u]
      /\ task'[t].at = "write" /\ task'[t].kind = "pause" /\ task'[t].svc = task[t].svc
      /\ task'[t].jobs = {} /\ task'[t].halts = halts
  BY <1>0, <1>2 DEF Become
<1>4. CASE Fault
  BY <1>1, <1>3, <1>4, OwnStep DEF Fault, PauseInv, Running, Busy
<1>5. ASSUME NoFault, t \notin disturbed
      PROVE  PauseProgress(t)'
  <2>1. PauseProgress(t)
    BY <1>1, <1>5 DEF PauseInv, ListForPause
  <2>2. halts = {r \in RulesOf(task[t].svc) : remote[task[t].svc][r].active}
    BY <1>2, <1>5 DEF NoFault, Fault, PauseInv, TypeOK
  <2>3. UNCHANGED remote /\ task[t].at = "list"
    BY DEF ListForPause
  <2> QED
    BY <1>3, <2>1, <2>2, <2>3 DEF PauseProgress, Silent, RulesOf
<1>6. CASE NoFault
  BY <1>1, <1>3, <1>5, <1>6, OwnStep DEF NoFault
<1> QED
  BY <1>2, <1>4, <1>6

LEMMA FinishPauses == ASSUME PauseInv, TypeOK', NEW t \in Tasks, Finish(t) PROVE PauseInv'
<1>0. task \in [Tasks -> Activity]
  BY DEF PauseInv, TypeOK
<1>1. Busy(t) /\ task[t].svc \in Providers /\ disturbed' = disturbed
  BY HeldType DEF Finish, Busy, PauseInv, NoFault
<1>2. /\ \A u \in Tasks \ {t} : task'[u] = task[u]
      /\ task'[t] = IF task[t].kind = "pause" /\ task[t].svc = "zernio"
                      THEN [at |-> "list", kind |-> "pause", svc |-> "postzen", gate |-> FALSE]
                      ELSE [at |-> "done", kind |-> task[t].kind, svc |-> task[t].svc]
  BY <1>0 DEF Finish, Become
<1>3. ASSUME t \notin disturbed, task'[t].kind = "pause"
      PROVE  PauseProgress(t)'
  <2>1. task[t].kind = "pause"
    BY <1>2, <1>3
  <2>2. PauseProgress(t)
    BY <1>1, <1>3, <2>1 DEF PauseInv
  <2>3. Silent(task[t].svc)
    BY <2>2 DEF PauseProgress, Finish, Silent
  <2>4. UNCHANGED remote
    BY DEF Finish
  <2>5. CASE task[t].svc = "zernio"
    BY <1>2, <2>1, <2>3, <2>4, <2>5 DEF PauseProgress, Silent, RulesOf
  <2>6. CASE task[t].svc = "postzen"
    <3>1. Silent("zernio") /\ Silent("postzen")
      BY <2>2, <2>3, <2>6 DEF PauseProgress, Finish
    <3>2. task'[t].at = "done"
      BY <1>2, <2>6
    <3> QED
      BY <2>4, <3>1, <3>2 DEF PauseProgress, Silent, RulesOf
  <2> QED
    BY <1>1, <2>5, <2>6 DEF Providers
<1> QED
  BY <1>1, <1>2, <1>3, OwnStep

LEMMA PauseStep == PauseInv /\ [Next]_vars => PauseInv'
<1> SUFFICES ASSUME PauseInv, [Next]_vars PROVE PauseInv'
  OBVIOUS
<1>0. TypeOK'
  BY TypeStep DEF PauseInv
<1>1. CASE UNCHANGED vars
  BY <1>0, <1>1 DEF PauseInv, PauseProgress, Silent, RulesOf, Busy, vars, settings
<1>2. CASE Request
  BY <1>0, <1>2, RequestPauses
<1>3. ASSUME NEW t \in Tasks, Work(t) PROVE PauseInv'
  <2>1. CASE Close(t)
    <3>1. task \in [Tasks -> Activity]
      BY DEF PauseInv, TypeOK
    <3>2. task'[t] = Idle /\ \A u \in Tasks \ {t} : task'[u] = task[u]
      BY <2>1, <3>1 DEF Close, Become
    <3> QED
      BY <1>0, <2>1, <3>2, OwnStep DEF Close, Busy, Idle
  <2> QED
    BY <1>0, <1>3, <2>1, StartPauses, SyncPauses, HaltPauses, ListPauses, FinishPauses DEF Work
<1>4. CASE Restart
  BY <1>0, <1>4 DEF Restart, PauseInv, Busy, Idle
<1> QED
  BY <1>1, <1>2, <1>3, <1>4 DEF Next

(* Switching the bot off silences both providers when the pause met no     *)
(* edit, no other thread and no failed call.                               *)
THEOREM PausesSilence == Spec => []CleanPauseSilences
<1>1. PauseInv => CleanPauseSilences
  BY DEF PauseInv, Busy, PauseProgress, CleanPauseSilences, Undisturbed, Silent, Providers
<1> QED
  BY <1>1, PauseInit, PauseStep, PTL DEF Spec

-----------------------------------------------------------------------------
(* The sync.  What an undisturbed sync has read is still so, and after each *)
(* of its writes every keyword in use either has its rule or has its job   *)
(* still to come, and a rule of any other keyword is off or still to be    *)
(* halted.  Nothing here asks for one rule per keyword: with duplicates    *)
(* the sync manages one of them.                                           *)

Wanted(k) == rows[k] # None /\ rows[k].active

Served(svc, k) == \E r \in RulesOf(svc) : /\ remote[svc][r].kid = k
                                          /\ remote[svc][r].word = rows[k].word
                                          /\ remote[svc][r].text = rows[k].text
                                          /\ remote[svc][r].price = price
                                          /\ remote[svc][r].gate = gate
                                          /\ remote[svc][r].active

Quiet(svc, k, halts) ==
  (\E r \in RulesOf(svc) : remote[svc][r].kid = k)
    => \E r \in RulesOf(svc) : /\ remote[svc][r].kid = k
                               /\ remote[svc][r].active => r \in halts

JobFits(svc, j) == /\ Wanted(j.kid)
                   /\ j.word = rows[j.kid].word /\ j.text = rows[j.kid].text
                   /\ j.rid # None => j.rid \in RulesOf(svc) /\ remote[svc][j.rid].kid = j.kid

Ahead(svc, jobs, halts) ==
  /\ \A j \in jobs : JobFits(svc, j)
  /\ \A i, j \in jobs : i.kid = j.kid => i = j
  /\ \A k \in Ids : Wanted(k) => Served(svc, k) \/ \E j \in jobs : j.kid = k
  /\ \A r \in halts : r \in RulesOf(svc) /\ ~Wanted(remote[svc][r].kid)
  /\ \A k \in Ids : ~Wanted(k) => Quiet(svc, k, halts)

SyncProgress(t) ==
  /\ task[t].at \in {"list", "read", "write"} => task[t].gate = gate
  /\ task[t].at = "read" => task[t].seen \in ByName(ListedRules(task[t].svc))
  /\ task[t].at = "write" => /\ task[t].price \in {None, price}
                             /\ Ahead(task[t].svc, task[t].jobs, task[t].halts)
  /\ task[t].at = "done" => Ahead(task[t].svc, {}, {})

SyncInv == \A t \in Tasks : Busy(t) /\ t \notin disturbed /\ task[t].kind \in Syncs
                              => SyncProgress(t)

LEMMA SyncInit == Init => SyncInv
  BY DEF Init, SyncInv, Busy, Idle

(* A step of a running thread concerns no other undisturbed one.           *)
LEMMA OwnSync ==
  ASSUME PauseInv, SyncInv, NEW t \in Tasks, Busy(t),
         \A u \in Tasks \ {t} : task'[u] = task[u],
         \A u \in Tasks : u \notin disturbed' /\ u # t => u \notin disturbed,
         Busy(t)' /\ t \notin disturbed' /\ task'[t].kind \in Syncs => SyncProgress(t)'
  PROVE  SyncInv'
<1>1. ASSUME NEW u \in Tasks, Busy(u)', u \notin disturbed', u # t
      PROVE  FALSE
  BY <1>1 DEF PauseInv, Busy
<1> QED
  BY <1>1 DEF SyncInv

(* What a write to one rule leaves of the others.                          *)
LEMMA PatchedRules ==
  ASSUME TypeOK, NEW svc \in Providers, NEW r \in Rids, NEW rule \in Rule \cup {None},
         Patch(svc, r, rule)
  PROVE  /\ remote'[svc][r] = rule
         /\ \A q \in Rids \ {r} : remote'[svc][q] = remote[svc][q]
         /\ RulesOf(svc) \ {r} \subseteq RulesOf(svc)'
         /\ RulesOf(svc)' \subseteq RulesOf(svc) \cup {r}
<1>1. remote'[svc][r] = rule /\ \A q \in Rids \ {r} : remote'[svc][q] = remote[svc][q]
  BY DEF TypeOK, Patch
<1> QED
  BY <1>1 DEF RulesOf

(* Saving a job serves its keyword and leaves the other rules alone.       *)
LEMMA SaveAhead ==
  ASSUME TypeOK, NEW svc \in Providers, NEW jobs \in SUBSET Job, NEW halts \in SUBSET Rids,
         Ahead(svc, jobs, halts), NEW j \in jobs,
         NEW r \in Rids, r = j.rid \/ (r \notin RulesOf(svc) /\ j.rid = None),
         NEW rule \in Rule, Patch(svc, r, rule),
         rule.kid = j.kid /\ rule.word = j.word /\ rule.text = j.text,
         rule.price = price /\ rule.gate = gate /\ rule.active,
         UNCHANGED <<rows, price, gate>>
  PROVE  Ahead(svc, jobs \ {j}, halts)'
<1>1. /\ remote'[svc][r] = rule /\ rule # None
      /\ \A q \in Rids \ {r} : remote'[svc][q] = remote[svc][q]
      /\ RulesOf(svc)' = RulesOf(svc) \cup {r}
  <2>1. rule # None
    BY NoneAssumption
  <2>2. r \in RulesOf(svc)'
    BY <2>1, PatchedRules DEF RulesOf
  <2> QED
    BY <2>1, <2>2, PatchedRules
<1>2. JobFits(svc, j) /\ j.kid \in Ids /\ \A k : Wanted(k)' <=> Wanted(k)
  BY DEF Ahead, Wanted, Job
<1>3. r \in RulesOf(svc) => remote[svc][r].kid = j.kid
  BY <1>2, NoneAssumption DEF JobFits
<1>4. Served(svc, j.kid)'
  BY <1>1, <1>2 DEF Served, JobFits
<1>5. ASSUME NEW k \in Ids, Served(svc, k), k # j.kid PROVE Served(svc, k)'
  <2>1. PICK q \in RulesOf(svc) : /\ remote[svc][q].kid = k
                                  /\ remote[svc][q].word = rows[k].word
                                  /\ remote[svc][q].text = rows[k].text
                                  /\ remote[svc][q].price = price
                                  /\ remote[svc][q].gate = gate
                                  /\ remote[svc][q].active
    BY <1>5 DEF Served
  <2>2. q \in RulesOf(svc)' /\ remote'[svc][q] = remote[svc][q]
    BY <1>1, <1>3, <1>5, <2>1 DEF RulesOf
  <2> QED
    BY <2>1, <2>2 DEF Served
<1>6. ASSUME NEW k \in Ids, ~Wanted(k) PROVE Quiet(svc, k, halts)'
  <2>1. Quiet(svc, k, halts) /\ k # j.kid
    BY <1>2, <1>6 DEF Ahead, JobFits
  <2>2. \A q \in RulesOf(svc)' : remote'[svc][q].kid = k =>
          q \in RulesOf(svc) /\ remote'[svc][q] = remote[svc][q]
    BY <1>1, <2>1 DEF RulesOf
  <2>3. \A q \in RulesOf(svc) : remote[svc][q].kid = k =>
          q \in RulesOf(svc)' /\ remote'[svc][q] = remote[svc][q]
    BY <1>1, <1>3, <2>1 DEF RulesOf
  <2> QED
    BY <2>1, <2>2, <2>3 DEF Quiet
<1>7. ASSUME NEW i \in jobs \ {j} PROVE JobFits(svc, i)'
  <2>1. JobFits(svc, i) /\ i.kid # j.kid
    BY DEF Ahead
  <2>2. i.rid # None => i.rid \in RulesOf(svc)' /\ remote'[svc][i.rid] = remote[svc][i.rid]
    BY <1>1, <1>3, <2>1 DEF JobFits, RulesOf
  <2> QED
    BY <1>2, <2>1, <2>2 DEF JobFits
<1>8. ASSUME NEW q \in halts PROVE (q \in RulesOf(svc) /\ ~Wanted(remote[svc][q].kid))'
  <2>1. q \in RulesOf(svc) /\ ~Wanted(remote[svc][q].kid)
    BY DEF Ahead
  <2>2. q # r
    BY <1>2, <1>3, <2>1 DEF JobFits
  <2>3. q \in RulesOf(svc)' /\ remote'[svc][q] = remote[svc][q]
    BY <1>1, <2>1, <2>2 DEF RulesOf
  <2> QED
    BY <2>1, <2>3 DEF Wanted
<1>9. \A k \in Ids : Wanted(k)' => Served(svc, k)' \/ \E i \in jobs \ {j} : i.kid = k
  BY <1>2, <1>4, <1>5 DEF Ahead
<1>10. \A i, l \in jobs \ {j} : i.kid = l.kid => i = l
  BY DEF Ahead
<1> QED
  BY <1>2, <1>6, <1>7, <1>8, <1>9, <1>10 DEF Ahead

(* A reset's delete takes the keyword's rule and leaves its job to come.   *)
LEMMA DropAhead ==
  ASSUME TypeOK, NEW svc \in Providers, NEW jobs \in SUBSET Job, NEW halts \in SUBSET Rids,
         Ahead(svc, jobs, halts), NEW j \in jobs, j.rid \in Rids, Patch(svc, j.rid, None),
         NEW d, d.kid = j.kid, d.word = j.word, d.text = j.text, d.rid = None,
         UNCHANGED <<rows, price, gate>>
  PROVE  Ahead(svc, (jobs \ {j}) \cup {d}, halts)'
<1>1. /\ \A q \in Rids \ {j.rid} : remote'[svc][q] = remote[svc][q]
      /\ RulesOf(svc)' = RulesOf(svc) \ {j.rid}
  <2>1. remote'[svc][j.rid] = None
    BY PatchedRules
  <2> QED
    BY <2>1, PatchedRules DEF RulesOf
<1>2. /\ JobFits(svc, j) /\ j.kid \in Ids /\ \A k : Wanted(k)' <=> Wanted(k)
      /\ remote[svc][j.rid].kid = j.kid
  BY NoneAssumption DEF Ahead, Wanted, Job, JobFits
<1>3. \A q \in RulesOf(svc) : remote[svc][q].kid # j.kid =>
        q \in RulesOf(svc)' /\ remote'[svc][q] = remote[svc][q]
  BY <1>1, <1>2 DEF RulesOf
<1>4. \A q \in RulesOf(svc)' : q \in RulesOf(svc) /\ remote'[svc][q] = remote[svc][q]
  BY <1>1 DEF RulesOf
<1>5. ASSUME NEW k \in Ids, Served(svc, k), k # j.kid PROVE Served(svc, k)'
  BY <1>3, <1>5 DEF Served
<1>6. ASSUME NEW k \in Ids, ~Wanted(k) PROVE Quiet(svc, k, halts)'
  <2>1. Quiet(svc, k, halts) /\ k # j.kid
    BY <1>2, <1>6 DEF Ahead, JobFits
  <2> QED
    BY <1>3, <1>4, <2>1 DEF Quiet
<1>7. ASSUME NEW i \in (jobs \ {j}) \cup {d} PROVE JobFits(svc, i)'
  <2>1. CASE i = d
    BY <1>2, <2>1 DEF JobFits, Wanted
  <2>2. CASE i \in jobs \ {j}
    <3>1. JobFits(svc, i) /\ i.kid # j.kid
      BY <2>2 DEF Ahead
    <3>2. i.rid # None => i.rid \in RulesOf(svc)' /\ remote'[svc][i.rid] = remote[svc][i.rid]
      BY <1>3, <3>1 DEF JobFits
    <3> QED
      BY <1>2, <3>1, <3>2 DEF JobFits
  <2> QED
    BY <2>1, <2>2
<1>8. ASSUME NEW q \in halts PROVE (q \in RulesOf(svc) /\ ~Wanted(remote[svc][q].kid))'
  <2>1. q \in RulesOf(svc) /\ ~Wanted(remote[svc][q].kid)
    BY DEF Ahead
  <2>2. q \in RulesOf(svc)' /\ remote'[svc][q] = remote[svc][q]
    BY <1>2, <1>3, <2>1 DEF JobFits
  <2> QED
    BY <2>1, <2>2 DEF Wanted
<1>9. \A k \in Ids : Wanted(k)' => Served(svc, k)' \/ \E i \in (jobs \ {j}) \cup {d} : i.kid = k
  BY <1>2, <1>5 DEF Ahead
<1>10. \A i, l \in (jobs \ {j}) \cup {d} : i.kid = l.kid => i = l
  BY DEF Ahead
<1> QED
  BY <1>2, <1>6, <1>7, <1>8, <1>9, <1>10 DEF Ahead

(* Halting a rule of a keyword not in use.                                 *)
LEMMA HaltAhead ==
  ASSUME TypeOK, NEW svc \in Providers, NEW jobs \in SUBSET Job, NEW halts \in SUBSET Rids,
         Ahead(svc, jobs, halts), NEW r \in halts,
         remote' = [remote EXCEPT ![svc][r].active = FALSE],
         UNCHANGED <<rows, price, gate>>
  PROVE  Ahead(svc, jobs, halts \ {r})'
<1>1. r \in RulesOf(svc) /\ remote[svc][r] \in Rule /\ ~Wanted(remote[svc][r].kid)
  BY DEF Ahead, RulesOf, TypeOK
<1>2. /\ remote'[svc][r] = [remote[svc][r] EXCEPT !.active = FALSE]
      /\ \A q \in Rids \ {r} : remote'[svc][q] = remote[svc][q]
  BY DEF TypeOK
<1>3. /\ remote'[svc][r].kid = remote[svc][r].kid /\ ~remote'[svc][r].active
      /\ remote'[svc][r] # None
  <2>1. ASSUME NEW rule \in Rule, NEW off, off = [rule EXCEPT !.active = FALSE]
        PROVE  off \in Rule /\ off.kid = rule.kid /\ ~off.active
    BY <2>1 DEF Rule
  <2>2. /\ remote'[svc][r].kid = remote[svc][r].kid /\ ~remote'[svc][r].active
        /\ remote'[svc][r] \in Rule
    BY <1>1, <1>2, <2>1
  <2> QED
    BY <2>2, NoneAssumption
<1>4. RulesOf(svc)' = RulesOf(svc) /\ \A q \in RulesOf(svc) : remote'[svc][q].kid = remote[svc][q].kid
  BY <1>1, <1>2, <1>3 DEF RulesOf
<1>5. \A k : Wanted(k)' <=> Wanted(k)
  BY DEF Wanted
<1>6. ASSUME NEW k \in Ids, Wanted(k), Served(svc, k) PROVE Served(svc, k)'
  <2>1. PICK q \in RulesOf(svc) : /\ remote[svc][q].kid = k
                                  /\ remote[svc][q].word = rows[k].word
                                  /\ remote[svc][q].text = rows[k].text
                                  /\ remote[svc][q].price = price
                                  /\ remote[svc][q].gate = gate
                                  /\ remote[svc][q].active
    BY <1>6 DEF Served
  <2>2. q \in RulesOf(svc)' /\ remote'[svc][q] = remote[svc][q]
    BY <1>1, <1>2, <1>4, <1>6, <2>1 DEF RulesOf
  <2> QED
    BY <2>1, <2>2 DEF Served
<1>7. ASSUME NEW k \in Ids, ~Wanted(k), \E q \in RulesOf(svc) : remote[svc][q].kid = k
      PROVE  \E q \in RulesOf(svc) : /\ remote'[svc][q].kid = k
                                     /\ remote'[svc][q].active => q \in halts \ {r}
  <2>1. PICK q \in RulesOf(svc) : /\ remote[svc][q].kid = k
                                  /\ remote[svc][q].active => q \in halts
    BY <1>7 DEF Ahead, Quiet
  <2>2. CASE q = r
    BY <1>1, <1>3, <2>1, <2>2
  <2>3. CASE q # r
    <3>1. remote'[svc][q] = remote[svc][q]
      BY <1>2, <2>1, <2>3 DEF RulesOf
    <3> QED
      BY <2>1, <2>3, <3>1
  <2> QED
    BY <2>2, <2>3
<1>8. \A k \in Ids : ~Wanted(k)' => Quiet(svc, k, halts \ {r})'
  BY <1>4, <1>5, <1>7 DEF Quiet
<1>9. ASSUME NEW i \in jobs PROVE JobFits(svc, i)'
  BY <1>4, <1>5 DEF Ahead, JobFits
<1>10. \A q \in halts \ {r} : (q \in RulesOf(svc) /\ ~Wanted(remote[svc][q].kid))'
  BY <1>4 DEF Ahead, Wanted
<1>11. \A k \in Ids : Wanted(k)' => Served(svc, k)' \/ \E i \in jobs : i.kid = k
  BY <1>5, <1>6 DEF Ahead
<1> QED
  BY <1>8, <1>9, <1>10, <1>11 DEF Ahead

LEMMA ListedRule ==
  ASSUME NEW svc, NEW r \in RulesOf(svc)
  PROVE  [rid |-> r, kid |-> remote[svc][r].kid, word |-> remote[svc][r].word,
          active |-> remote[svc][r].active] \in ListedRules(svc)
  BY DEF ListedRules

(* Reading the keywords makes the jobs and the halts that are needed.      *)
LEMMA ReadAhead ==
  ASSUME TypeOK, NEW svc \in Providers, NEW seen \in ByName(ListedRules(svc)),
         NEW f \in [Present -> seen \cup {None}],
         \A k \in Present : LET F == Found(seen, k, rows[k].word)
                            IN  IF F = {} THEN f[k] = None ELSE f[k] \in F,
         NEW jobs, NEW halts,
         jobs = {[kid |-> k, word |-> rows[k].word, text |-> rows[k].text,
                  rid |-> IF f[k] = None THEN None ELSE f[k].rid,
                  deleted |-> FALSE] : k \in {i \in Present : rows[i].active}},
         halts = {f[k].rid : k \in {i \in Present : /\ ~rows[i].active
                                                    /\ f[i] # None
                                                    /\ f[i].active}}
                   \cup {s.rid : s \in {s \in seen : s.kid \notin Present /\ s.active}}
  PROVE  Ahead(svc, jobs, halts)
<1>1. \A s \in seen : /\ s.rid \in RulesOf(svc) /\ s.kid = remote[svc][s.rid].kid
                      /\ s.active = remote[svc][s.rid].active
  BY DEF ByName, ListedRules
<1>2. ASSUME NEW r \in RulesOf(svc) PROVE \E s \in seen : s.kid = remote[svc][r].kid
  <2> DEFINE a == [rid |-> r, kid |-> remote[svc][r].kid, word |-> remote[svc][r].word,
                   active |-> remote[svc][r].active]
  <2>1. a \in ListedRules(svc) /\ a.kid = remote[svc][r].kid
    BY ListedRule
  <2> HIDE DEF a
  <2> QED
    BY <2>1 DEF ByName, SameName
<1>3. None \notin seen
  <2>1. ListedRules(svc) \subseteq Listed
    BY DEF ListedRules, Listed, RulesOf, TypeOK, Rule
  <2> QED
    BY <2>1, NoneAssumption DEF ByName
<1>4. \A k \in Present : /\ f[k] # None => f[k] \in seen /\ f[k].kid = k
                         /\ f[k] = None => \A s \in seen : s.kid # k
  BY <1>3 DEF Found
<1>5. ASSUME NEW k \in Present, rows[k].active,
             NEW j, j = [kid |-> k, word |-> rows[k].word, text |-> rows[k].text,
                         rid |-> IF f[k] = None THEN None ELSE f[k].rid, deleted |-> FALSE]
      PROVE  JobFits(svc, j) /\ j.kid = k
  <2>1. /\ j.kid = k /\ j.word = rows[k].word /\ j.text = rows[k].text
        /\ j.rid = IF f[k] = None THEN None ELSE f[k].rid
    BY <1>5
  <2>2. Wanted(k)
    BY <1>5 DEF Wanted, Present
  <2>3. j.rid # None => j.rid \in RulesOf(svc) /\ remote[svc][j.rid].kid = k
    BY <1>1, <1>4, <2>1
  <2> QED
    BY <2>1, <2>2, <2>3 DEF JobFits
<1>6. \A j \in jobs : JobFits(svc, j)
  BY <1>5
<1>7. ASSUME NEW i \in jobs, NEW j \in jobs, i.kid = j.kid PROVE i = j
  <2> DEFINE JobOf(k) == [kid |-> k, word |-> rows[k].word, text |-> rows[k].text,
                          rid |-> IF f[k] = None THEN None ELSE f[k].rid, deleted |-> FALSE]
  <2>1. PICK k \in Present : i = JobOf(k)
    OBVIOUS
  <2>2. PICK l \in Present : j = JobOf(l)
    OBVIOUS
  <2>3. k = l
    BY <1>7, <2>1, <2>2
  <2> QED
    BY <2>1, <2>2, <2>3
<1>8. ASSUME NEW k \in Ids, Wanted(k) PROVE \E j \in jobs : j.kid = k
  <2>1. k \in Present /\ rows[k].active
    BY <1>8 DEF Wanted, Present
  <2> DEFINE j == [kid |-> k, word |-> rows[k].word, text |-> rows[k].text,
                   rid |-> IF f[k] = None THEN None ELSE f[k].rid, deleted |-> FALSE]
  <2>2. j \in jobs /\ j.kid = k
    BY <2>1
  <2> QED
    BY <2>2
<1>9. ASSUME NEW r \in halts PROVE r \in RulesOf(svc) /\ ~Wanted(remote[svc][r].kid)
  <2>1. CASE \E k \in Present : ~rows[k].active /\ f[k] # None /\ r = f[k].rid
    BY <1>1, <1>4, <2>1 DEF Wanted
  <2>2. CASE \E s \in seen : s.kid \notin Present /\ r = s.rid
    <3>1. PICK s \in seen : s.kid \notin Present /\ r = s.rid
      BY <2>2
    <3>2. s.kid \in Ids
      BY <1>1 DEF RulesOf, TypeOK, Rule
    <3> QED
      BY <1>1, <3>1, <3>2 DEF Wanted, Present
  <2> QED
    BY <2>1, <2>2
<1>10. ASSUME NEW k \in Ids, ~Wanted(k), NEW r \in RulesOf(svc), remote[svc][r].kid = k
       PROVE  \E q \in RulesOf(svc) : /\ remote[svc][q].kid = k
                                      /\ remote[svc][q].active => q \in halts
  <2>1. PICK s \in seen : s.kid = k
    BY <1>2, <1>10
  <2>2. CASE k \notin Present
    <3>1. s.active => s.rid \in halts
      BY <2>1, <2>2
    <3> QED
      BY <1>1, <2>1, <3>1
  <2>3. CASE k \in Present
    <3>1. ~rows[k].active
      BY <1>10, <2>3 DEF Wanted, Present
    <3>2. f[k] # None
      BY <1>4, <2>1, <2>3
    <3>3. f[k].active => f[k].rid \in halts
      BY <2>3, <3>1, <3>2
    <3> QED
      BY <1>1, <1>4, <2>3, <3>2, <3>3
  <2> QED
    BY <2>2, <2>3
<1>11. \A k \in Ids : ~Wanted(k) => Quiet(svc, k, halts)
  BY <1>10 DEF Quiet
<1> QED
  BY <1>6, <1>7, <1>8, <1>9, <1>11 DEF Ahead

(* A sync at its writes after a step, from what the step leaves of it.     *)
LEMMA WriteProgress ==
  ASSUME NEW t \in Tasks, NEW svc, NEW jobs, NEW halts,
         task'[t].at = "write", task'[t].svc = svc, task'[t].jobs = jobs, task'[t].halts = halts,
         task'[t].gate = gate', task'[t].price \in {None, price'},
         Ahead(svc, jobs, halts)'
  PROVE  SyncProgress(t)'
  BY DEF SyncProgress, Ahead, JobFits, Wanted, Served, Quiet, RulesOf

LEMMA DoneProgress ==
  ASSUME NEW t \in Tasks, NEW svc, task'[t].at = "done", task'[t].svc = svc,
         Ahead(svc, {}, {})'
  PROVE  SyncProgress(t)'
  BY DEF SyncProgress, Ahead, JobFits, Wanted, Served, Quiet, RulesOf

LEMMA AheadUnchanged ==
  ASSUME NEW svc, NEW jobs, NEW halts, Ahead(svc, jobs, halts),
         UNCHANGED <<rows, price, gate, remote>>
  PROVE  Ahead(svc, jobs, halts)'
<1>1. /\ RulesOf(svc)' = RulesOf(svc) /\ \A k : Wanted(k)' <=> Wanted(k)
  BY DEF RulesOf, Wanted
<1>2. \A j : JobFits(svc, j) => JobFits(svc, j)'
  BY <1>1 DEF JobFits
<1>3. \A k : Served(svc, k) => Served(svc, k)'
  BY <1>1 DEF Served
<1>4. \A k : Quiet(svc, k, halts) => Quiet(svc, k, halts)'
  BY <1>1 DEF Quiet
<1> QED
  BY <1>1, <1>2, <1>3, <1>4 DEF Ahead

LEMMA SyncingCalm ==
  ASSUME SyncInv, NEW t \in Tasks, Busy(t), t \notin disturbed, task[t].kind \in Syncs
  PROVE  SyncProgress(t)
  BY DEF SyncInv

(* Steps that disturb whatever runs say nothing about syncs.               *)
LEMMA DisturbingSync ==
  ASSUME Running \subseteq disturbed', \A t \in Tasks : Busy(t)' => Busy(t)
  PROVE  SyncInv'
  BY DEF SyncInv, Running, Busy

LEMMA RequestSyncs == ASSUME TypeOK, Request PROVE SyncInv'
<1>1. PICK kind \in Kinds : Edit(kind)
  BY DEF Request, CreateKeyword, UpdateKeyword, ToggleKeyword, DeleteKeyword, UpdateProduct,
         UpdateSettings, RestoreBackup, SyncByHand, Kinds, Syncs
<1>2. PICK t \in Tasks : task[t] = Idle /\ task' = [task EXCEPT ![t] = Due(kind)]
  BY <1>1 DEF Edit, Schedule
<1>3. \A u \in Tasks : Busy(u)' => Busy(u)
  BY <1>2 DEF TypeOK, Due, Busy
<1> QED
  BY <1>1, <1>3, DisturbingSync DEF Edit

LEMMA StartSyncs == ASSUME TypeOK, NEW t \in Tasks, Start(t) PROVE SyncInv'
<1>1. task \in [Tasks -> Activity]
  BY DEF TypeOK
<1>2. /\ \A u \in Tasks \ {t} : task'[u] = task[u]
      /\ task'[t].at = "list"
      /\ task'[t].kind = task[t].kind
      /\ task[t].kind # "pause" => task'[t].gate = gate
      /\ UNCHANGED gate
  BY <1>1 DEF Start, Become, settings
<1>3. CASE Running = {}
  <2>1. \A u \in Tasks : Busy(u)' => u = t
    BY <1>2, <1>3 DEF Busy, Running
  <2>2. task'[t].kind \in Syncs => SyncProgress(t)'
    BY <1>2 DEF SyncProgress, Syncs
  <2> QED
    BY <2>1, <2>2 DEF SyncInv
<1>4. CASE Running # {}
  <2>1. disturbed' = disturbed \cup Running \cup {t}
    BY <1>4 DEF Start
  <2>2. \A u \in Tasks : Busy(u)' => u \in disturbed'
    BY <1>2, <2>1 DEF Running, Busy
  <2> QED
    BY <2>2 DEF SyncInv
<1> QED
  BY <1>3, <1>4

LEMMA ListSyncs ==
  ASSUME PauseInv, SyncInv, NEW t \in Tasks, List(t) \/ ListFails(t)
  PROVE  SyncInv'
<1>0. task \in [Tasks -> Activity] /\ Busy(t)
  BY DEF PauseInv, TypeOK, List, ListFails, Busy
<1>1. CASE ListFails(t)
  BY <1>0, <1>1, OwnSync DEF ListFails, Become, Fault, Running, Busy
<1>2. CASE List(t)
  <2>1. PICK S \in ByName(ListedRules(task[t].svc)) :
               Become(t, [at |-> "read", kind |-> task[t].kind, svc |-> task[t].svc,
                          gate |-> task[t].gate, seen |-> S])
    BY <1>2 DEF List
  <2>2. /\ \A u \in Tasks \ {t} : task'[u] = task[u]
        /\ task'[t].at = "read" /\ task'[t].gate = task[t].gate
        /\ task'[t].svc = task[t].svc /\ task'[t].seen = S
    BY <1>0, <2>1 DEF Become
  <2>3. disturbed' = disturbed /\ UNCHANGED <<remote, gate>> /\ task[t].kind \in Syncs
        /\ task[t].at = "list"
    BY <1>2 DEF List, NoFault, settings
  <2>4. ASSUME t \notin disturbed PROVE SyncProgress(t)'
    <3>1. task[t].gate = gate
      BY <1>0, <2>3, <2>4, SyncingCalm DEF SyncProgress
    <3>2. ByName(ListedRules(task[t].svc)) = ByName(ListedRules(task[t].svc))'
      BY <2>2, <2>3 DEF ByName, ListedRules, RulesOf
    <3> QED
      BY <2>1, <2>2, <2>3, <3>1, <3>2 DEF SyncProgress
  <2> QED
    BY <1>0, <2>2, <2>3, <2>4, OwnSync
<1> QED
  BY <1>1, <1>2

LEMMA ReadSyncs ==
  ASSUME PauseInv, SyncInv, NEW t \in Tasks, ReadKeywords(t)
  PROVE  SyncInv'
<1>0. TypeOK /\ task \in [Tasks -> Activity] /\ Busy(t) /\ task[t].at = "read"
  BY DEF PauseInv, TypeOK, ReadKeywords, Busy
<1>1. task[t].kind \in Syncs /\ task[t].svc \in Providers
  BY <1>0, HeldType
<1>2. PICK svc \in Providers : svc = task[t].svc
  BY <1>1
<1>3. PICK seen : seen = task[t].seen
  OBVIOUS
<1>4. PICK f \in [Present -> seen \cup {None}] :
        /\ \A k \in Present : LET F == Found(seen, k, rows[k].word)
                              IN  IF F = {} THEN f[k] = None ELSE f[k] \in F
        /\ Become(t, [at |-> "write", kind |-> task[t].kind, svc |-> task[t].svc,
                      gate |-> task[t].gate, price |-> None,
                      jobs  |-> {[kid |-> k, word |-> rows[k].word, text |-> rows[k].text,
                                  rid |-> IF f[k] = None THEN None ELSE f[k].rid,
                                  deleted |-> FALSE] : k \in {i \in Present : rows[i].active}},
                      halts |-> {f[k].rid : k \in {i \in Present : /\ ~rows[i].active
                                                                   /\ f[i] # None
                                                                   /\ f[i].active}}
                                \cup {s.rid : s \in {s \in seen : s.kid \notin Present
                                                                  /\ s.active}}])
  BY <1>3 DEF ReadKeywords
<1>5. PICK jobs :
        jobs = {[kid |-> k, word |-> rows[k].word, text |-> rows[k].text,
                 rid |-> IF f[k] = None THEN None ELSE f[k].rid,
                 deleted |-> FALSE] : k \in {i \in Present : rows[i].active}}
  OBVIOUS
<1>6. PICK halts :
        halts = {f[k].rid : k \in {i \in Present : /\ ~rows[i].active
                                                   /\ f[i] # None
                                                   /\ f[i].active}}
                  \cup {s.rid : s \in {s \in seen : s.kid \notin Present /\ s.active}}
  OBVIOUS
<1>7. task' = [task EXCEPT ![t] = [at |-> "write", kind |-> task[t].kind, svc |-> task[t].svc,
                                   gate |-> task[t].gate, price |-> None,
                                   jobs |-> jobs, halts |-> halts]]
  BY <1>4, <1>5, <1>6 DEF Become
<1>8. /\ \A u \in Tasks \ {t} : task'[u] = task[u]
      /\ task'[t].at = "write" /\ task'[t].svc = svc /\ task'[t].gate = task[t].gate
      /\ task'[t].price = None /\ task'[t].jobs = jobs /\ task'[t].halts = halts
  BY <1>0, <1>2, <1>7
<1>9. disturbed' = disturbed /\ UNCHANGED <<rows, remote, price, gate>>
  BY DEF ReadKeywords, NoFault, settings
<1>10. ASSUME t \notin disturbed PROVE SyncProgress(t)'
  <2>1. task[t].gate = gate /\ seen \in ByName(ListedRules(svc))
    BY <1>0, <1>1, <1>2, <1>3, <1>10, SyncingCalm DEF SyncProgress
  <2>2. Ahead(svc, jobs, halts)
    BY <1>0, <1>4, <1>5, <1>6, <2>1, ReadAhead
  <2>3. Ahead(svc, jobs, halts)'
    BY <1>9, <2>2, AheadUnchanged
  <2> QED
    BY <1>8, <1>9, <2>1, <2>3, WriteProgress
<1> QED
  BY <1>0, <1>8, <1>9, <1>10, OwnSync

(* A write of an undisturbed sync: what it has in its hands.               *)
LEMMA HeldSync ==
  ASSUME PauseInv, SyncInv, NEW t \in Tasks, task[t].at = "write", t \notin disturbed,
         task[t].kind \in Syncs
  PROVE  /\ task[t].svc \in Providers /\ task[t].gate = gate
         /\ task[t].price \in {None, price} /\ Rendered(t) = price
         /\ task[t].jobs \in SUBSET Job /\ task[t].halts \in SUBSET Rids
         /\ \E svc \in Providers, jobs \in SUBSET Job, halts \in SUBSET Rids :
              /\ svc = task[t].svc /\ jobs = task[t].jobs /\ halts = task[t].halts
              /\ Ahead(svc, jobs, halts)
<1>1. SyncProgress(t)
  BY SyncingCalm DEF Busy
<1>2. /\ task[t].svc \in Providers /\ task[t].jobs \in SUBSET Job
      /\ task[t].halts \in SUBSET Rids
  BY HeldType DEF PauseInv
<1> QED
  BY <1>1, <1>2 DEF SyncProgress, Rendered

LEMMA DropSyncs ==
  ASSUME PauseInv, SyncInv, TypeOK', NEW t \in Tasks, NEW j \in Jobs(t), DeleteForReset(t, j)
  PROVE  SyncInv'
<1> DEFINE d == [j EXCEPT !.rid = None, !.deleted = TRUE]
<1>0. /\ TypeOK /\ task[t].at = "write" /\ task[t].kind \in Syncs /\ Busy(t)
      /\ task[t] \in Writing /\ j \in task[t].jobs
  BY WritingType DEF PauseInv, DeleteForReset, Busy, Syncs, Jobs
<1>1. task' = [task EXCEPT ![t].jobs = (@ \ {j}) \cup {d}] /\ task \in [Tasks -> Activity]
  BY <1>0 DEF DeleteForReset, TypeOK
<1>2. /\ \A u \in Tasks \ {t} : task'[u] = task[u]
      /\ task'[t].at = "write" /\ task'[t].svc = task[t].svc /\ task'[t].gate = task[t].gate
      /\ task'[t].price = task[t].price /\ task'[t].halts = task[t].halts
      /\ task'[t].jobs = (task[t].jobs \ {j}) \cup {d}
  BY <1>0, <1>1 DEF Writing
<1>3. CASE Fault
  BY <1>0, <1>2, <1>3, OwnSync DEF Fault, Running, Busy
<1>4. ASSUME NoFault, t \notin disturbed PROVE SyncProgress(t)'
  <2>1. Patch(task[t].svc, j.rid, None)
    BY <1>0, <1>4 DEF DeleteForReset, NoFault, Fault, TypeOK
  <2>2. PICK svc \in Providers, jobs \in SUBSET Job, halts \in SUBSET Rids :
          /\ svc = task[t].svc /\ jobs = task[t].jobs /\ halts = task[t].halts
          /\ Ahead(svc, jobs, halts)
    BY <1>0, <1>4, HeldSync
  <2>3. j \in jobs /\ j \in Job /\ j.rid \in Rids
    BY <1>0, <2>2 DEF DeleteForReset, Job
  <2>4. d.kid = j.kid /\ d.word = j.word /\ d.text = j.text /\ d.rid = None
    BY <2>3 DEF Job
  <2>5. UNCHANGED <<rows, price, gate>>
    BY DEF DeleteForReset, settings
  <2> HIDE DEF d
  <2>6. PICK e : e = d
    OBVIOUS
  <2>7. Ahead(svc, (jobs \ {j}) \cup {e}, halts)'
    BY <1>0, <2>1, <2>2, <2>3, <2>4, <2>5, <2>6, DropAhead
  <2>8. task[t].gate = gate /\ task[t].price \in {None, price}
    BY <1>0, <1>4, HeldSync
  <2> QED
    BY <1>2, <2>2, <2>5, <2>6, <2>7, <2>8, WriteProgress
<1>5. CASE NoFault
  BY <1>0, <1>2, <1>4, <1>5, OwnSync DEF NoFault
<1> QED
  BY <1>3, <1>5 DEF DeleteForReset

LEMMA SaveSyncs ==
  ASSUME PauseInv, SyncInv, TypeOK', NEW t \in Tasks, NEW j \in Jobs(t),
         CreateRule(t, j) \/ PatchRule(t, j)
  PROVE  SyncInv'
<1>0. /\ TypeOK /\ task[t].at = "write" /\ Busy(t)
      /\ task[t] \in Writing /\ j \in task[t].jobs
  BY WritingType DEF PauseInv, CreateRule, PatchRule, Busy, Jobs
<1>1. JobEnds(t, j) /\ task \in [Tasks -> Activity] /\ UNCHANGED <<rows, price, gate>>
  BY <1>0 DEF CreateRule, PatchRule, TypeOK, settings
<1>2. /\ \A u \in Tasks \ {t} : task'[u] = task[u]
      /\ task'[t].at = "write" /\ task'[t].kind = task[t].kind
      /\ task'[t].svc = task[t].svc /\ task'[t].gate = task[t].gate
      /\ task'[t].price = Rendered(t) /\ task'[t].halts = task[t].halts
      /\ task'[t].jobs = task[t].jobs \ {j}
  BY <1>0, <1>1 DEF Writing, JobEnds
<1>3. CASE disturbed' = disturbed \cup Running
  BY <1>0, <1>2, <1>3, OwnSync DEF Running, Busy
<1>4. ASSUME disturbed' = disturbed, t \notin disturbed, task[t].kind \in Syncs
      PROVE  SyncProgress(t)'
  <2>1. PICK svc \in Providers, jobs \in SUBSET Job, halts \in SUBSET Rids :
          /\ svc = task[t].svc /\ jobs = task[t].jobs /\ halts = task[t].halts
          /\ Ahead(svc, jobs, halts)
    BY <1>0, <1>4, HeldSync
  <2>2. task[t].gate = gate /\ Rendered(t) = price
    BY <1>0, <1>4, HeldSync
  <2>3. j \in jobs /\ j \in Job /\ JobFits(svc, j)
    BY <1>0, <2>1 DEF Ahead
  <2>4. t \in Running
    BY <1>0 DEF Running
  <2>5. PICK rule : rule = Saved(t, j)
    OBVIOUS
  <2>6. /\ rule \in Rule
        /\ rule.kid = j.kid /\ rule.word = j.word /\ rule.text = j.text
        /\ rule.price = price /\ rule.gate = gate /\ rule.active
    BY <1>0, <2>2, <2>5, WriteType DEF Saved
  <2>7. PICK r \in Rids : /\ r = j.rid \/ (r \notin RulesOf(svc) /\ j.rid = None)
                          /\ Patch(svc, r, rule)
    <3>1. CASE CreateRule(t, j)
      <4>1. Rids \ RulesOf(svc) # {}
            /\ Patch(svc, CHOOSE r \in Rids \ RulesOf(svc) : TRUE, rule)
        BY <1>0, <1>4, <2>1, <2>4, <2>5, <3>1 DEF CreateRule, Fault
      <4>2. (CHOOSE r \in Rids \ RulesOf(svc) : TRUE) \in Rids \ RulesOf(svc)
        BY <4>1
      <4> QED
        BY <3>1, <4>1, <4>2 DEF CreateRule
    <3>2. CASE PatchRule(t, j)
      <4>1. j.rid \in RulesOf(svc)
        BY <2>3, <3>2 DEF PatchRule, JobFits
      <4>2. Patch(svc, j.rid, rule)
        BY <1>4, <2>1, <2>4, <2>5, <3>2, <4>1 DEF PatchRule, Fault
      <4> QED
        BY <4>1, <4>2 DEF RulesOf
    <3> QED
      BY <3>1, <3>2
  <2>8. Ahead(svc, jobs \ {j}, halts)'
    BY <1>0, <1>1, <2>1, <2>3, <2>6, <2>7, SaveAhead
  <2> QED
    BY <1>1, <1>2, <2>1, <2>2, <2>8, WriteProgress
<1>5. CASE disturbed' = disturbed
  BY <1>0, <1>2, <1>4, <1>5, OwnSync
<1> QED
  BY <1>3, <1>5 DEF CreateRule, PatchRule, Fault, NoFault

LEMMA HaltSyncs ==
  ASSUME PauseInv, SyncInv, TypeOK', NEW t \in Tasks, NEW r \in Halts(t), HaltRule(t, r)
  PROVE  SyncInv'
<1>0. /\ TypeOK /\ task[t].at = "write" /\ Busy(t)
      /\ task[t] \in Writing /\ r \in task[t].halts
  BY WritingType DEF PauseInv, HaltRule, Busy
<1>1. /\ task' = [task EXCEPT ![t].halts = @ \ {r}] /\ task \in [Tasks -> Activity]
      /\ UNCHANGED <<rows, price, gate>>
  BY <1>0 DEF HaltRule, TypeOK, settings
<1>2. /\ \A u \in Tasks \ {t} : task'[u] = task[u]
      /\ task'[t].at = "write" /\ task'[t].kind = task[t].kind
      /\ task'[t].svc = task[t].svc /\ task'[t].gate = task[t].gate
      /\ task'[t].price = task[t].price /\ task'[t].halts = task[t].halts \ {r}
      /\ task'[t].jobs = task[t].jobs
  BY <1>0, <1>1 DEF Writing
<1>3. CASE Fault
  BY <1>0, <1>2, <1>3, OwnSync DEF Fault, Running, Busy
<1>4. ASSUME NoFault, t \notin disturbed, task[t].kind \in Syncs
      PROVE  SyncProgress(t)'
  <2>1. PICK svc \in Providers, jobs \in SUBSET Job, halts \in SUBSET Rids :
          /\ svc = task[t].svc /\ jobs = task[t].jobs /\ halts = task[t].halts
          /\ Ahead(svc, jobs, halts)
    BY <1>0, <1>4, HeldSync
  <2>2. task[t].gate = gate /\ task[t].price \in {None, price}
    BY <1>0, <1>4, HeldSync
  <2>3. r \in halts /\ r \in RulesOf(svc)
    BY <1>0, <2>1 DEF Ahead
  <2>4. ~Fault
    BY <1>0, <1>4 DEF NoFault, Fault, TypeOK
  <2>5. remote' = [remote EXCEPT ![svc][r].active = FALSE]
    BY <2>1, <2>3, <2>4 DEF HaltRule
  <2>6. Ahead(svc, jobs, halts \ {r})'
    BY <1>0, <1>1, <2>1, <2>3, <2>5, HaltAhead
  <2> QED
    BY <1>1, <1>2, <2>1, <2>2, <2>6, WriteProgress
<1>5. CASE NoFault
  BY <1>0, <1>2, <1>4, <1>5, OwnSync DEF NoFault
<1> QED
  BY <1>3, <1>5 DEF HaltRule

(* The rest is not about syncs, or their end.                              *)
LEMMA EndSyncs ==
  ASSUME PauseInv, SyncInv, NEW t \in Tasks, ListForPause(t) \/ Finish(t) \/ Close(t)
  PROVE  SyncInv'
<1>0. TypeOK /\ task \in [Tasks -> Activity] /\ Busy(t)
  BY DEF PauseInv, TypeOK, ListForPause, Finish, Close, Busy
<1>1. CASE ListForPause(t)
  <2>1. PICK halts \in SUBSET Rids :
          Become(t, [at |-> "write", kind |-> "pause", svc |-> task[t].svc, gate |-> FALSE,
                     price |-> None, jobs |-> {}, halts |-> halts])
    BY <1>1 DEF ListForPause
  <2>2. task'[t].kind = "pause" /\ \A u \in Tasks \ {t} : task'[u] = task[u]
    BY <1>0, <2>1 DEF Become
  <2>3. \A u \in Tasks : u \notin disturbed' => u \notin disturbed
    BY <1>1 DEF ListForPause, NoFault, Fault
  <2> QED
    BY <1>0, <2>2, <2>3, OwnSync DEF Syncs
<1>2. CASE Finish(t)
  <2>1. /\ \A u \in Tasks \ {t} : task'[u] = task[u]
        /\ task'[t] = IF task[t].kind = "pause" /\ task[t].svc = "zernio"
                        THEN [at |-> "list", kind |-> "pause", svc |-> "postzen", gate |-> FALSE]
                        ELSE [at |-> "done", kind |-> task[t].kind, svc |-> task[t].svc]
        /\ disturbed' = disturbed /\ UNCHANGED <<rows, price, gate, remote>>
    BY <1>0, <1>2 DEF Finish, Become, NoFault, settings
  <2>2. ASSUME t \notin disturbed, task'[t].kind \in Syncs PROVE SyncProgress(t)'
    <3>1. task[t].kind \in Syncs /\ task'[t].at = "done" /\ task'[t].svc = task[t].svc
      BY <2>1, <2>2 DEF Syncs
    <3>2. PICK svc \in Providers : svc = task[t].svc /\ Ahead(svc, {}, {})
      BY <1>0, <1>2, <2>2, <3>1, HeldSync DEF Finish
    <3>3. Ahead(svc, {}, {})'
      BY <2>1, <3>2, AheadUnchanged
    <3> QED
      BY <3>1, <3>2, <3>3, DoneProgress
  <2> QED
    BY <1>0, <2>1, <2>2, OwnSync
<1>3. CASE Close(t)
  <2>1. task'[t] = Idle /\ \A u \in Tasks \ {t} : task'[u] = task[u]
    BY <1>0, <1>3 DEF Close, Become
  <2> QED
    BY <1>0, <1>3, <2>1, OwnSync DEF Close, Busy, Idle
<1> QED
  BY <1>1, <1>2, <1>3

LEMMA SyncStep == PauseInv /\ SyncInv /\ [Next]_vars => SyncInv'
<1> SUFFICES ASSUME PauseInv, SyncInv, [Next]_vars PROVE SyncInv'
  OBVIOUS
<1>0. TypeOK /\ TypeOK'
  BY TypeStep DEF PauseInv
<1>1. CASE UNCHANGED vars
  <2>1. UNCHANGED <<rows, price, gate, remote, task, disturbed>>
    BY <1>1 DEF vars, settings
  <2>2. ASSUME NEW t \in Tasks, SyncProgress(t) PROVE SyncProgress(t)'
    <3>1. PICK svc, jobs, halts : svc = task[t].svc /\ jobs = task[t].jobs /\ halts = task[t].halts
      OBVIOUS
    <3>2. CASE task[t].at = "write"
      <4>0. Ahead(svc, jobs, halts)
        BY <2>2, <3>1, <3>2 DEF SyncProgress
      <4>1. Ahead(svc, jobs, halts)'
        BY <2>1, <4>0, AheadUnchanged
      <4> QED
        BY <2>1, <2>2, <3>1, <3>2, <4>1, WriteProgress DEF SyncProgress
    <3>3. CASE task[t].at = "done"
      <4>0. Ahead(svc, {}, {})
        BY <2>2, <3>1, <3>3 DEF SyncProgress
      <4>1. Ahead(svc, {}, {})'
        BY <2>1, <4>0, AheadUnchanged
      <4> QED
        BY <2>1, <3>1, <3>3, <4>1, DoneProgress
    <3>4. CASE task[t].at \notin {"write", "done"}
      <4>1. ByName(ListedRules(task[t].svc))' = ByName(ListedRules(task[t].svc))
        BY <2>1 DEF ByName, ListedRules, RulesOf
      <4> QED
        BY <2>1, <2>2, <3>4, <4>1 DEF SyncProgress
    <3> QED
      BY <3>2, <3>3, <3>4
  <2> QED
    BY <2>1, <2>2 DEF SyncInv, Busy
<1>2. ASSUME NEW t \in Tasks, Work(t) PROVE SyncInv'
  BY <1>0, <1>2, StartSyncs, ListSyncs, ReadSyncs, DropSyncs, SaveSyncs, HaltSyncs, EndSyncs
     DEF Work
<1>3. CASE Restart
  BY <1>3 DEF Restart, SyncInv, Busy, Idle
<1> QED
  BY <1>0, <1>1, <1>2, <1>3, RequestSyncs DEF Next

(* At the end of an undisturbed sync nothing is left to do.                *)
LEMMA SyncedIsMirrored == PauseInv /\ SyncInv => CleanSyncMirrors
<1> SUFFICES ASSUME PauseInv, SyncInv, NEW t \in Tasks, Undisturbed(t, Syncs),
                    OneRulePerKeyword(task[t].svc), NEW k \in Ids
             PROVE  MirroredBy(task[t].svc, k)
  BY DEF CleanSyncMirrors
<1>1. Ahead(task[t].svc, {}, {})
  BY SyncingCalm DEF Undisturbed, Busy, SyncProgress
<1>2. PICK svc : svc = task[t].svc
  OBVIOUS
<1> DEFINE mine == {r \in RulesOf(svc) : remote[svc][r].kid = k /\ remote[svc][r].active}
<1>3. \A r, s \in RulesOf(svc) : remote[svc][r].kid = remote[svc][s].kid => r = s
  BY <1>2 DEF OneRulePerKeyword
<1>4. CASE Wanted(k)
  <2>1. Served(svc, k)
    BY <1>1, <1>2, <1>4 DEF Ahead
  <2>2. /\ mine # {}
        /\ \A r \in mine : /\ remote[svc][r].word = rows[k].word
                           /\ remote[svc][r].text = rows[k].text
                           /\ remote[svc][r].price = price
                           /\ remote[svc][r].gate = gate
    BY <1>3, <2>1 DEF Served
  <2> QED
    BY <1>2, <1>4, <2>2 DEF MirroredBy, Wanted
<1>5. CASE ~Wanted(k)
  <2>1. Quiet(svc, k, {})
    BY <1>1, <1>2, <1>5 DEF Ahead
  <2>2. mine = {}
    BY <1>3, <2>1 DEF Quiet
  <2> QED
    BY <1>2, <1>5, <2>2 DEF MirroredBy, Wanted
<1> QED
  BY <1>4, <1>5

(* A sync that met no edit, no other thread and no failed call leaves      *)
(* exactly the rules of the active keywords active and up to date,         *)
(* whatever earlier threads left behind.                                   *)
THEOREM SyncsMirror == Spec => []CleanSyncMirrors
  BY PauseInit, PauseStep, SyncInit, SyncStep, SyncedIsMirrored, PTL DEF Spec

=============================================================================
