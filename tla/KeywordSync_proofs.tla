------------------------- MODULE KeywordSync_proofs -------------------------
(***************************************************************************)
(* Proofs about KeywordSync for every number of keywords, rules, threads,  *)
(* edits, faults and restarts.                                             *)
(***************************************************************************)
EXTENDS KeywordSync, TLAPS

(* What a thread has in its hands.                                         *)
LEMMA HeldType ==
  ASSUME TypeOK, NEW t \in Tasks
  PROVE  /\ task[t].at \in {"idle", "due", "list", "read", "write", "done"}
         /\ task[t].at = "due" => task[t].kind \in Kinds
         /\ task[t].at \in {"list", "read", "write", "done"} =>
              task[t].kind \in Kinds /\ task[t].svc \in Providers
         /\ task[t].at \in {"list", "read", "write"} => task[t].gate \in BOOLEAN
         /\ task[t].at = "read" => task[t].seen \in SUBSET Listed /\ task[t].kind \in Syncs
         /\ task[t].at = "write" => /\ task[t].jobs \in SUBSET Job
                                    /\ task[t].halts \in SUBSET Rids
                                    /\ task[t].price \in Prices \cup {None}
  BY DEF TypeOK, Activity, Idle, Kinds, Syncs

LEMMA TypeInit == Init => TypeOK
<1> SUFFICES ASSUME Init PROVE TypeOK
  OBVIOUS
<1>1. task \in [Tasks -> Activity]
  BY DEF Init, Activity
<1>2. remote \in [Providers -> [Rids -> Rule \cup {None}]]
  BY DEF Init
<1>3. edits \in 0..MaxEdits /\ faults \in 0..MaxFaults /\ restarts \in 0..MaxRestarts
  BY BoundsAssumption DEF Init
<1> QED
  BY <1>1, <1>2, <1>3 DEF Init, TypeOK, Providers

(* A thread that moves on to a well-typed activity.                        *)
LEMMA BecomeType ==
  ASSUME TypeOK, NEW t \in Tasks, NEW a \in Activity, Become(t, a)
  PROVE  task' \in [Tasks -> Activity]
  BY DEF TypeOK, Become

LEMMA EditType ==
  ASSUME TypeOK, NEW kind \in Kinds, Edit(kind)
  PROVE  /\ task' \in [Tasks -> Activity]
         /\ edits' \in 0..MaxEdits
         /\ disturbed' \subseteq Tasks
         /\ UNCHANGED <<remote, faults, restarts, overlapped>>
<1>1. Due(kind) \in Activity
  BY DEF Due, Activity
<1>2. task' \in [Tasks -> Activity]
  BY <1>1 DEF Edit, Schedule, TypeOK
<1>3. edits' \in 0..MaxEdits
  BY BoundsAssumption DEF Edit, TypeOK
<1> QED
  BY <1>2, <1>3 DEF Edit, Running, TypeOK

LEMMA RequestType == ASSUME TypeOK, Request PROVE TypeOK'
<1> USE EditType DEF Kinds, Syncs
<1>1. ASSUME NEW k \in Ids, NEW w \in Words, NEW x \in Texts, CreateKeyword(k, w, x)
      PROVE  TypeOK'
  BY <1>1 DEF CreateKeyword, TypeOK, Row, settings
<1>2. ASSUME NEW k \in Ids, NEW w \in Words, NEW x \in Texts, NEW a \in BOOLEAN,
             UpdateKeyword(k, w, x, a)
      PROVE  TypeOK'
  BY <1>2 DEF UpdateKeyword, TypeOK, Row, settings
<1>3. ASSUME NEW k \in Ids, NEW w \in Words, NEW x \in Texts, NEW a \in BOOLEAN,
             NEW g \in BOOLEAN, NEW p \in Prices, RestoreBackup(k, w, x, a, g, p)
      PROVE  TypeOK'
  BY <1>3 DEF RestoreBackup, TypeOK, Row
<1>4. ASSUME NEW k \in Ids, ToggleKeyword(k)
      PROVE  TypeOK'
  <2>1. rows[k] \in Row
    BY <1>4 DEF ToggleKeyword, TypeOK
  <2>2. [rows[k] EXCEPT !.active = ~@] \in Row
    BY <2>1 DEF Row
  <2>3. rows' \in [Ids -> Row \cup {None}]
    BY <1>4, <2>2 DEF ToggleKeyword, TypeOK
  <2> QED
    BY <1>4, <2>3 DEF ToggleKeyword, TypeOK, settings
<1>5. ASSUME NEW k \in Ids, DeleteKeyword(k)
      PROVE  TypeOK'
  BY <1>5 DEF DeleteKeyword, TypeOK, settings
<1>6. ASSUME NEW p \in Prices, UpdateProduct(p)
      PROVE  TypeOK'
  BY <1>6 DEF UpdateProduct, TypeOK
<1>7. ASSUME NEW g \in BOOLEAN, NEW b \in BOOLEAN, NEW svc \in Providers,
             UpdateSettings(g, b, svc)
      PROVE  TypeOK'
  BY <1>7 DEF UpdateSettings, TypeOK
<1>8. ASSUME NEW reset \in BOOLEAN, SyncByHand(reset)
      PROVE  TypeOK'
  BY <1>8 DEF SyncByHand, TypeOK, settings
<1> QED
  BY <1>1, <1>2, <1>3, <1>4, <1>5, <1>6, <1>7, <1>8 DEF Request

(* History and fault counter after any call.                               *)
LEMMA FaultType ==
  ASSUME TypeOK, Fault \/ NoFault
  PROVE  faults' \in 0..MaxFaults /\ disturbed' \subseteq Tasks
  BY BoundsAssumption DEF Fault, NoFault, Running, TypeOK

LEMMA PatchType ==
  ASSUME TypeOK, NEW svc \in Providers, NEW r \in Rids, NEW rule \in Rule \cup {None},
         Patch(svc, r, rule)
  PROVE  remote' \in [Providers -> [Rids -> Rule \cup {None}]]
  BY DEF TypeOK, Patch

(* A thread at its writes: the job it takes and the rule it saves.         *)
LEMMA WriteType ==
  ASSUME TypeOK, NEW t \in Tasks, task[t].at = "write", NEW j \in task[t].jobs
  PROVE  /\ j \in Job
         /\ Rendered(t) \in Prices
         /\ Saved(t, j) \in Rule
         /\ JobEnds(t, j) => task' \in [Tasks -> Activity]
<1> DEFINE a == task[t]
<1>1. /\ a \in [at : {"write"}, kind : Kinds, svc : Providers, gate : BOOLEAN,
                price : Prices \cup {None}, jobs : SUBSET Job, halts : SUBSET Rids]
  BY DEF TypeOK, Activity, Idle
<1>2. j \in Job
  BY <1>1
<1>3. Rendered(t) \in Prices
  BY <1>1 DEF Rendered, TypeOK
<1>4. Saved(t, j) \in Rule
  BY <1>1, <1>2, <1>3 DEF Saved, Rule, Job
<1>5. [[a EXCEPT !.jobs = @ \ {j}] EXCEPT !.price = Rendered(t)] \in Activity
  BY <1>1, <1>3 DEF Activity
<1>6. JobEnds(t, j) => task' \in [Tasks -> Activity]
  BY <1>5 DEF JobEnds, TypeOK
<1> QED
  BY <1>2, <1>3, <1>4, <1>6

LEMMA WorkType ==
  ASSUME TypeOK, NEW t \in Tasks, Work(t)
  PROVE  TypeOK'
<1> USE DEF settings, bounds
<1>1. CASE Start(t)
  <2>1. /\ task[t].kind \in Kinds /\ provider \in Providers /\ gate \in BOOLEAN
        /\ "zernio" \in Providers
    BY <1>1, HeldType DEF Start, TypeOK, Providers
  <2>2. task' \in [Tasks -> Activity]
    BY <1>1, <2>1 DEF Start, Become, TypeOK, Activity
  <2> QED
    BY <1>1, <2>2 DEF Start, Running, TypeOK
<1>2. CASE List(t)
  <2>1. ListedRules(task[t].svc) \subseteq Listed
    <3>1. PICK svc \in Providers : svc = task[t].svc
      BY <1>2, HeldType DEF List
    <3>2. \A r \in RulesOf(svc) : r \in Rids /\ remote[svc][r] \in Rule
      BY DEF RulesOf, TypeOK
    <3> QED
      BY <3>1, <3>2 DEF ListedRules, Listed, Rule
  <2>2. PICK S \in ByName(ListedRules(task[t].svc)) :
               Become(t, [at |-> "read", kind |-> task[t].kind, svc |-> task[t].svc,
                          gate |-> task[t].gate, seen |-> S])
    BY <1>2 DEF List
  <2>3. S \in SUBSET Listed
    BY <2>1 DEF ByName
  <2>4. task' \in [Tasks -> Activity]
    BY <1>2, <2>2, <2>3, HeldType DEF List, Become, TypeOK, Activity
  <2>5. overlapped' \in BOOLEAN
    BY <1>2 DEF List, InsideAnother, TypeOK
  <2> QED
    BY <1>2, <2>4, <2>5, FaultType DEF List, TypeOK
<1>3. CASE ListFails(t)
  <2>1. task' \in [Tasks -> Activity]
    BY <1>3, HeldType DEF ListFails, Become, TypeOK, Activity
  <2> QED
    BY <1>3, <2>1, FaultType DEF ListFails, TypeOK
<1>4. CASE ReadKeywords(t)
  <2> DEFINE a == task[t]
  <2>1. a.kind \in Kinds /\ a.svc \in Providers /\ a.gate \in BOOLEAN /\ a.seen \in SUBSET Listed
    BY <1>4, HeldType DEF ReadKeywords
  <2>2. PICK f \in [Present -> a.seen \cup {None}] :
          Become(t, [at |-> "write", kind |-> a.kind, svc |-> a.svc, gate |-> a.gate,
                     price |-> None,
                     jobs  |-> {[kid |-> k, word |-> rows[k].word, text |-> rows[k].text,
                                 rid |-> IF f[k] = None THEN None ELSE f[k].rid,
                                 deleted |-> FALSE] : k \in {i \in Present : rows[i].active}},
                     halts |-> {f[k].rid : k \in {i \in Present : /\ ~rows[i].active
                                                                  /\ f[i] # None
                                                                  /\ f[i].active}}
                               \cup {s.rid : s \in {s \in a.seen : s.kid \notin Present
                                                                    /\ s.active}}])
    BY <1>4 DEF ReadKeywords
  <2>3. \A k \in Present : rows[k] \in Row /\ k \in Ids /\ (f[k] # None => f[k].rid \in Rids)
    BY <2>1, <2>2 DEF Present, TypeOK, Listed
  <2> DEFINE jobs == {[kid |-> k, word |-> rows[k].word, text |-> rows[k].text,
                       rid |-> IF f[k] = None THEN None ELSE f[k].rid,
                       deleted |-> FALSE] : k \in {i \in Present : rows[i].active}}
             halts == {f[k].rid : k \in {i \in Present : /\ ~rows[i].active
                                                          /\ f[i] # None
                                                          /\ f[i].active}}
                      \cup {s.rid : s \in {s \in a.seen : s.kid \notin Present /\ s.active}}
  <2>4. jobs \in SUBSET Job
    <3> SUFFICES ASSUME NEW k \in Present
                 PROVE  [kid |-> k, word |-> rows[k].word, text |-> rows[k].text,
                         rid |-> IF f[k] = None THEN None ELSE f[k].rid,
                         deleted |-> FALSE] \in Job
      OBVIOUS
    <3> QED
      BY <2>3 DEF Job, Row
  <2>5. halts \in SUBSET Rids
    BY <2>1, <2>3 DEF Listed
  <2> HIDE DEF jobs, halts
  <2>6. Become(t, [at |-> "write", kind |-> a.kind, svc |-> a.svc, gate |-> a.gate,
                   price |-> None, jobs |-> jobs, halts |-> halts])
    BY <2>2 DEF jobs, halts
  <2>7. task' \in [Tasks -> Activity]
    BY <2>1, <2>4, <2>5, <2>6 DEF Become, TypeOK, Activity
  <2> QED
    BY <1>4, <2>7, FaultType DEF ReadKeywords, TypeOK
<1>5. ASSUME NEW j \in Jobs(t), DeleteForReset(t, j)
      PROVE  TypeOK'
  <2>1. task[t].at = "write" /\ j \in task[t].jobs
    BY <1>5 DEF DeleteForReset, Jobs
  <2>2. j \in Job /\ j.rid \in Rids /\ task[t].svc \in Providers
    BY <1>5, <2>1, WriteType, HeldType DEF DeleteForReset, Job
  <2>3. [j EXCEPT !.rid = None, !.deleted = TRUE] \in Job
    BY <2>2 DEF Job
  <2>4. task[t] \in [at : {"write"}, kind : Kinds, svc : Providers, gate : BOOLEAN,
                     price : Prices \cup {None}, jobs : SUBSET Job, halts : SUBSET Rids]
    BY <2>1 DEF TypeOK, Activity, Idle
  <2>5. [task[t] EXCEPT !.jobs = (@ \ {j}) \cup {[j EXCEPT !.rid = None, !.deleted = TRUE]}]
          \in Activity
    BY <2>3, <2>4 DEF Activity
  <2>6. task' \in [Tasks -> Activity]
    BY <1>5, <2>5 DEF DeleteForReset, TypeOK
  <2>7. remote' \in [Providers -> [Rids -> Rule \cup {None}]]
    BY <1>5, <2>2, PatchType DEF DeleteForReset, TypeOK
  <2> QED
    BY <1>5, <2>6, <2>7, FaultType DEF DeleteForReset, TypeOK
<1>6. ASSUME NEW j \in Jobs(t), CreateRule(t, j) \/ PatchRule(t, j)
      PROVE  TypeOK'
  <2>1. task[t].at = "write" /\ j \in task[t].jobs
    BY <1>6 DEF CreateRule, PatchRule, Jobs
  <2>2. /\ task' \in [Tasks -> Activity]
        /\ Saved(t, j) \in Rule
        /\ task[t].svc \in Providers
        /\ j \in Job
    BY <1>6, <2>1, WriteType, HeldType DEF CreateRule, PatchRule
  <2>3. remote' \in [Providers -> [Rids -> Rule \cup {None}]]
    <3>1. CASE UNCHANGED remote
      BY <3>1 DEF TypeOK
    <3>2. ASSUME NEW r \in Rids, Patch(task[t].svc, r, Saved(t, j))
          PROVE  remote' \in [Providers -> [Rids -> Rule \cup {None}]]
      BY <2>2, <3>2, PatchType
    <3>3. CASE CreateRule(t, j)
      BY <1>6, <3>1, <3>2, <3>3 DEF CreateRule
    <3>4. CASE PatchRule(t, j)
      BY <1>6, <3>1, <3>2, <3>4 DEF PatchRule, RulesOf
    <3> QED
      BY <1>6, <3>3, <3>4
  <2>4. faults' \in 0..MaxFaults /\ disturbed' \subseteq Tasks
    BY <1>6, FaultType DEF CreateRule, PatchRule, Running, TypeOK
  <2> QED
    BY <1>6, <2>2, <2>3, <2>4 DEF CreateRule, PatchRule, TypeOK
<1>7. ASSUME NEW r \in Halts(t), HaltRule(t, r)
      PROVE  TypeOK'
  <2>1. task[t] \in [at : {"write"}, kind : Kinds, svc : Providers, gate : BOOLEAN,
                     price : Prices \cup {None}, jobs : SUBSET Job, halts : SUBSET Rids]
    BY <1>7 DEF HaltRule, TypeOK, Activity, Idle
  <2>2. r \in Rids /\ task[t].svc \in Providers
    BY <1>7, <2>1 DEF HaltRule
  <2>3. [task[t] EXCEPT !.halts = @ \ {r}] \in Activity
    BY <2>1 DEF Activity
  <2>4. task' \in [Tasks -> Activity]
    BY <1>7, <2>3 DEF HaltRule, TypeOK
  <2>5. remote' \in [Providers -> [Rids -> Rule \cup {None}]]
    <3>1. CASE UNCHANGED remote
      BY <3>1 DEF TypeOK
    <3>2. CASE r \in RulesOf(task[t].svc)
               /\ remote' = [remote EXCEPT ![task[t].svc][r].active = FALSE]
      <4>1. remote[task[t].svc][r] \in Rule
        BY <2>2, <3>2 DEF RulesOf, TypeOK
      <4>2. [remote[task[t].svc][r] EXCEPT !.active = FALSE] \in Rule
        BY <4>1 DEF Rule
      <4> QED
        BY <2>2, <3>2, <4>2 DEF TypeOK
    <3> QED
      BY <1>7, <3>1, <3>2 DEF HaltRule
  <2> QED
    BY <1>7, <2>4, <2>5, FaultType DEF HaltRule, TypeOK
<1>8. CASE ListForPause(t)
  <2>1. task' \in [Tasks -> Activity]
    BY <1>8, HeldType DEF ListForPause, Become, TypeOK, Activity, Kinds
  <2> QED
    BY <1>8, <2>1, FaultType DEF ListForPause, TypeOK
<1>9. CASE Finish(t)
  <2>1. task' \in [Tasks -> Activity]
    BY <1>9, HeldType DEF Finish, Become, TypeOK, Activity, Kinds, Providers
  <2> QED
    BY <1>9, <2>1, FaultType DEF Finish, TypeOK
<1>10. CASE Close(t)
  BY <1>10 DEF Close, Become, TypeOK, Activity
<1> QED
  BY <1>1, <1>2, <1>3, <1>4, <1>5, <1>6, <1>7, <1>8, <1>9, <1>10 DEF Work

LEMMA TypeStep == TypeOK /\ [Next]_vars => TypeOK'
<1> SUFFICES ASSUME TypeOK, [Next]_vars PROVE TypeOK'
  OBVIOUS
<1>1. CASE UNCHANGED vars
  BY <1>1 DEF vars, settings, bounds, TypeOK
<1>2. CASE Restart
  <2>1. restarts' \in 0..MaxRestarts
    BY <1>2, BoundsAssumption DEF Restart, TypeOK
  <2> QED
    BY <1>2, <2>1 DEF Restart, settings, TypeOK, Activity
<1> QED
  BY <1>1, <1>2, RequestType, WorkType DEF Next

(* Rows, rules and threads keep their types for every instance.            *)
THEOREM TypeCorrect == Spec => []TypeOK
  BY TypeInit, TypeStep, PTL DEF Spec

-----------------------------------------------------------------------------
(* No duplicates without overlap.  As long as no sync listed inside the    *)
(* run of another one, a sync that has listed knows the rule of every      *)
(* keyword: what it read and the jobs it still has track the rules.        *)

Syncing(t) == task[t].at \in {"read", "write"} /\ task[t].kind \in Syncs

Alone == \A t, u \in Tasks :
           Syncing(t) /\ Syncing(u) /\ task[t].svc = task[u].svc => t = u

\* What a sync has seen are the rules of its provider.
SeenTracks(t) ==
  task[t].at = "read" =>
    /\ \A s \in task[t].seen : /\ s.rid \in RulesOf(task[t].svc)
                              /\ remote[task[t].svc][s.rid].kid = s.kid
    /\ \A r \in RulesOf(task[t].svc) :
         \E s \in task[t].seen : s.kid = remote[task[t].svc][r].kid

\* A job patches the rule of its keyword, or creates one where there is none.
JobTracks(svc, j) ==
  /\ j.rid = None => \A r \in RulesOf(svc) : remote[svc][r].kid # j.kid
  /\ j.rid # None => j.rid \in RulesOf(svc) /\ remote[svc][j.rid].kid = j.kid

JobsTrack(t) ==
  task[t].at = "write" =>
    /\ \A j \in task[t].jobs : JobTracks(task[t].svc, j)
    /\ \A i, j \in task[t].jobs : i.kid = j.kid => i = j

PauseHasNoJobs == \A t \in Tasks : task[t].at = "write" /\ task[t].kind = "pause"
                                     => task[t].jobs = {}

Tracked == /\ Alone
           /\ \A svc \in Providers : OneRulePerKeyword(svc)
           /\ \A t \in Tasks : SeenTracks(t) /\ JobsTrack(t)

OverlapInv == TypeOK /\ PauseHasNoJobs /\ (~overlapped => Tracked)

LEMMA OverlapInit == Init => OverlapInv
<1> SUFFICES ASSUME Init PROVE OverlapInv
  OBVIOUS
<1>1. \A t \in Tasks : task[t].at = "idle"
  BY DEF Init, Idle
<1>2. \A svc \in Providers : RulesOf(svc) = {}
  BY DEF Init, RulesOf
<1> QED
  BY <1>1, <1>2, TypeInit DEF OverlapInv, PauseHasNoJobs, Tracked, Alone, Syncing,
     OneRulePerKeyword, SeenTracks, JobsTrack

(* A step that leaves the rules alone and moves at most one thread, and    *)
(* that one neither to reading nor to writing as a sync.                   *)
LEMMA OutsideStep ==
  ASSUME OverlapInv, NEW t \in Tasks, UNCHANGED remote, overlapped' = FALSE => ~overlapped,
         \A u \in Tasks \ {t} : task'[u] = task[u],
         task'[t].at # "read",
         task'[t].at = "write" => task'[t].kind = "pause" /\ task'[t].jobs = {},
         TypeOK'
  PROVE  OverlapInv'
<1>1. PauseHasNoJobs'
  BY DEF OverlapInv, PauseHasNoJobs
<1>2. \A svc : RulesOf(svc)' = RulesOf(svc)
  BY DEF RulesOf
<1>3. ASSUME ~overlapped' PROVE Tracked'
  <2>1. Tracked
    BY <1>3 DEF OverlapInv, TypeOK
  <2>2. \A u \in Tasks : Syncing(u)' => u # t /\ Syncing(u) /\ task'[u] = task[u]
    BY DEF Syncing, Syncs
  <2>3. Alone'
    BY <2>1, <2>2 DEF Tracked, Alone
  <2>4. \A svc \in Providers : OneRulePerKeyword(svc)'
    BY <2>1, <1>2 DEF Tracked, OneRulePerKeyword
  <2>5. ASSUME NEW u \in Tasks PROVE SeenTracks(u)' /\ JobsTrack(u)'
    <3>1. CASE u = t
      BY <3>1 DEF SeenTracks, JobsTrack
    <3>2. CASE u # t
      BY <3>2, <2>1, <1>2 DEF Tracked, SeenTracks, JobsTrack, JobTracks
    <3> QED
      BY <3>1, <3>2
  <2> QED
    BY <2>3, <2>4, <2>5 DEF Tracked
<1> QED
  BY <1>1, <1>3 DEF OverlapInv

(* A step of a sync at its writes that changes rules of its own provider.  *)
LEMMA WriterStep ==
  ASSUME OverlapInv, NEW t \in Tasks, task[t].at = "write", ~overlapped,
         NEW svc \in Providers, svc = task[t].svc, task[t].kind \in Syncs,
         \A u \in Tasks \ {t} : task'[u] = task[u],
         task'[t].at = "write", task'[t].kind = task[t].kind, task'[t].svc = svc,
         \A s \in Providers \ {svc} : remote'[s] = remote[s],
         OneRulePerKeyword(svc)', JobsTrack(t)'
  PROVE  Tracked'
<1>1. Tracked
  BY DEF OverlapInv
<1>2. \A u \in Tasks : Syncing(u)' <=> Syncing(u)
  BY DEF Syncing
<1>3. \A u \in Tasks : task'[u].svc = task[u].svc
  OBVIOUS
<1>4. Alone'
  BY <1>1, <1>2, <1>3 DEF Tracked, Alone
<1>5. \A s \in Providers \ {svc} : RulesOf(s)' = RulesOf(s)
  BY DEF RulesOf
<1>6. \A s \in Providers : OneRulePerKeyword(s)'
  BY <1>1, <1>5 DEF Tracked, OneRulePerKeyword
<1>7. ASSUME NEW u \in Tasks, u # t PROVE SeenTracks(u)' /\ JobsTrack(u)'
  <2>1. CASE Syncing(u)
    <3>1. PICK s \in Providers \ {svc} : s = task[u].svc
      BY <1>1, <1>7, <2>1, HeldType DEF Tracked, Alone, Syncing, OverlapInv
    <3>2. remote'[s] = remote[s] /\ RulesOf(s)' = RulesOf(s) /\ task'[u].svc = s
      BY <1>5, <1>7, <3>1
    <3>3. \A j : JobTracks(s, j)' <=> JobTracks(s, j)
      BY <3>2 DEF JobTracks
    <3>4. SeenTracks(u) /\ JobsTrack(u) /\ task'[u] = task[u]
      BY <1>1, <1>7 DEF Tracked
    <3>5. SeenTracks(u)'
      BY <3>1, <3>2, <3>4 DEF SeenTracks
    <3>6. JobsTrack(u)'
      BY <3>1, <3>2, <3>3, <3>4 DEF JobsTrack, JobTracks
    <3> QED
      BY <3>5, <3>6
  <2>2. CASE ~Syncing(u)
    <3>1. task[u].at # "read"
      BY <2>2, HeldType DEF Syncing, OverlapInv
    <3>2. task[u].at = "write" => task[u].jobs = {}
      BY <2>2, HeldType DEF Syncing, OverlapInv, PauseHasNoJobs, Kinds
    <3> QED
      BY <1>7, <3>1, <3>2 DEF SeenTracks, JobsTrack
  <2> QED
    BY <2>1, <2>2
<1>8. SeenTracks(t)'
  BY DEF SeenTracks
<1> QED
  BY <1>4, <1>6, <1>7, <1>8 DEF Tracked

(* One listed rule for every rule, and only those.                         *)
LEMMA ListTracks ==
  ASSUME TypeOK, NEW svc \in Providers, NEW S \in ByName(ListedRules(svc))
  PROVE  /\ \A s \in S : s.rid \in RulesOf(svc) /\ remote[svc][s.rid].kid = s.kid
         /\ \A r \in RulesOf(svc) : \E s \in S : s.kid = remote[svc][r].kid
<1>1. \A s \in ListedRules(svc) : s.rid \in RulesOf(svc) /\ remote[svc][s.rid].kid = s.kid
  BY DEF ListedRules
<1>2. S \subseteq ListedRules(svc)
  BY DEF ByName
<1>3. ASSUME NEW r \in RulesOf(svc)
      PROVE  \E s \in S : s.kid = remote[svc][r].kid
  <2> DEFINE l == [rid |-> r, kid |-> remote[svc][r].kid, word |-> remote[svc][r].word,
                   active |-> remote[svc][r].active]
  <2>1. l \in ListedRules(svc)
    BY DEF ListedRules
  <2>2. PICK s \in S : SameName(l, s)
    BY <2>1 DEF ByName
  <2> QED
    BY <2>2 DEF SameName
<1> QED
  BY <1>1, <1>2, <1>3

LEMMA ListKeeps ==
  ASSUME OverlapInv, TypeOK', NEW t \in Tasks, List(t)
  PROVE  OverlapInv'
<1>1. PICK S \in ByName(ListedRules(task[t].svc)) :
        Become(t, [at |-> "read", kind |-> task[t].kind, svc |-> task[t].svc,
                   gate |-> task[t].gate, seen |-> S])
  BY DEF List
<1>2. /\ task' = [task EXCEPT ![t] = [at |-> "read", kind |-> task[t].kind,
                                     svc |-> task[t].svc, gate |-> task[t].gate, seen |-> S]]
      /\ task \in [Tasks -> Activity]
  BY <1>1 DEF Become, OverlapInv, TypeOK
<1>3. /\ task'[t].at = "read" /\ task'[t].svc = task[t].svc /\ task'[t].seen = S
      /\ \A u \in Tasks \ {t} : task'[u] = task[u]
  BY <1>2
<1>4. UNCHANGED remote /\ overlapped' = (overlapped \/ InsideAnother(t))
  BY DEF List
<1>5. PauseHasNoJobs'
  BY <1>3 DEF OverlapInv, PauseHasNoJobs
<1>6. \A svc : RulesOf(svc)' = RulesOf(svc)
  BY <1>4 DEF RulesOf
<1>7. ASSUME ~overlapped' PROVE Tracked'
  <2>1. Tracked /\ ~InsideAnother(t)
    BY <1>4, <1>7 DEF OverlapInv, InsideAnother, TypeOK
  <2>2. Alone'
    BY <1>3, <2>1 DEF Tracked, Alone, Syncing, InsideAnother
  <2>3. \A svc \in Providers : OneRulePerKeyword(svc)'
    BY <1>4, <1>6, <2>1 DEF Tracked, OneRulePerKeyword
  <2>4. SeenTracks(t)' /\ JobsTrack(t)'
    <3>1. task[t].svc \in Providers
      BY HeldType DEF List, OverlapInv
    <3> QED
      BY <1>3, <1>4, <1>6, <3>1, ListTracks DEF SeenTracks, JobsTrack, OverlapInv
  <2>5. ASSUME NEW u \in Tasks \ {t} PROVE SeenTracks(u)' /\ JobsTrack(u)'
    <3>1. /\ task'[u] = task[u] /\ remote' = remote
          /\ SeenTracks(u) /\ JobsTrack(u)
      BY <1>3, <1>4, <2>1 DEF Tracked
    <3>2. SeenTracks(u)'
      BY <1>6, <3>1 DEF SeenTracks
    <3>3. JobsTrack(u)'
      BY <1>6, <3>1 DEF JobsTrack, JobTracks
    <3> QED
      BY <3>2, <3>3
  <2> QED
    BY <2>2, <2>3, <2>4, <2>5 DEF Tracked
<1> QED
  BY <1>5, <1>7 DEF OverlapInv

LEMMA ReadKeeps ==
  ASSUME OverlapInv, TypeOK', NEW t \in Tasks, ReadKeywords(t)
  PROVE  OverlapInv'
<1> DEFINE a == task[t]
<1>1. PICK f \in [Present -> a.seen \cup {None}] :
       /\ \A k \in Present : LET F == Found(a.seen, k, rows[k].word)
                             IN  IF F = {} THEN f[k] = None ELSE f[k] \in F
       /\ Become(t, [at |-> "write", kind |-> a.kind, svc |-> a.svc, gate |-> a.gate,
                     price |-> None,
                     jobs  |-> {[kid |-> k, word |-> rows[k].word, text |-> rows[k].text,
                                 rid |-> IF f[k] = None THEN None ELSE f[k].rid,
                                 deleted |-> FALSE] : k \in {i \in Present : rows[i].active}},
                     halts |-> {f[k].rid : k \in {i \in Present : /\ ~rows[i].active
                                                                  /\ f[i] # None
                                                                  /\ f[i].active}}
                               \cup {s.rid : s \in {s \in a.seen : s.kid \notin Present
                                                                    /\ s.active}}])
  BY DEF ReadKeywords
<1> DEFINE jobs == {[kid |-> k, word |-> rows[k].word, text |-> rows[k].text,
                     rid |-> IF f[k] = None THEN None ELSE f[k].rid,
                     deleted |-> FALSE] : k \in {i \in Present : rows[i].active}}
<1>2. /\ task'[t].at = "write" /\ task'[t].kind = a.kind /\ task'[t].svc = a.svc
      /\ task'[t].jobs = jobs
      /\ \A u \in Tasks \ {t} : task'[u] = task[u]
  BY <1>1 DEF Become, OverlapInv, TypeOK
<1>3. a.at = "read" /\ a.kind \in Syncs /\ a.seen \in SUBSET Listed
  BY HeldType DEF ReadKeywords, OverlapInv
<1>4. UNCHANGED <<remote, overlapped>>
  BY DEF ReadKeywords
<1>5. \A svc : RulesOf(svc)' = RulesOf(svc)
  BY <1>4 DEF RulesOf
<1>6. PauseHasNoJobs'
  BY <1>2, <1>3 DEF OverlapInv, PauseHasNoJobs, Syncs
<1>7. ASSUME ~overlapped' PROVE Tracked'
  <2>1. Tracked
    BY <1>4, <1>7 DEF OverlapInv
  <2>2. Alone'
    BY <1>2, <1>3, <2>1 DEF Tracked, Alone, Syncing
  <2>3. \A svc \in Providers : OneRulePerKeyword(svc)'
    BY <1>4, <1>5, <2>1 DEF Tracked, OneRulePerKeyword
  <2>4. ASSUME NEW k \in Present,
               NEW j, j = [kid |-> k, word |-> rows[k].word, text |-> rows[k].text,
                           rid |-> IF f[k] = None THEN None ELSE f[k].rid, deleted |-> FALSE]
        PROVE  JobTracks(a.svc, j)
    <3>1. j.kid = k /\ j.rid = IF f[k] = None THEN None ELSE f[k].rid
      BY <2>4
    <3>2. CASE f[k] = None
      <4>1. Found(a.seen, k, rows[k].word) = {}
        <5>1. None \notin Found(a.seen, k, rows[k].word)
          BY <1>3, NoneAssumption DEF Found
        <5> QED
          BY <1>1, <3>2, <5>1
      <4>2. \A s \in a.seen : s.kid # k
        BY <4>1 DEF Found
      <4>3. \A r \in RulesOf(a.svc) : remote[a.svc][r].kid # k
        BY <1>3, <2>1, <4>2 DEF Tracked, SeenTracks
      <4> QED
        BY <3>1, <3>2, <4>3 DEF JobTracks
    <3>3. CASE f[k] # None
      <4>1. f[k] \in a.seen /\ f[k].kid = k
        BY <1>1, <3>3 DEF Found
      <4>2. f[k].rid \in RulesOf(a.svc) /\ remote[a.svc][f[k].rid].kid = k
        BY <1>3, <2>1, <4>1 DEF Tracked, SeenTracks
      <4>3. f[k].rid # None
        BY <4>2, NoneAssumption DEF RulesOf
      <4> QED
        BY <3>1, <3>3, <4>2, <4>3 DEF JobTracks
    <3> QED
      BY <3>2, <3>3
  <2>5. JobsTrack(t)'
    <3>1. \A j \in jobs : JobTracks(a.svc, j)
      BY <2>4
    <3>3. ASSUME NEW i \in jobs, NEW j \in jobs, i.kid = j.kid
          PROVE  i = j
      <4> DEFINE JobOf(k) == [kid |-> k, word |-> rows[k].word, text |-> rows[k].text,
                              rid |-> IF f[k] = None THEN None ELSE f[k].rid,
                              deleted |-> FALSE]
      <4>1. PICK k \in Present : i = JobOf(k)
        OBVIOUS
      <4>2. PICK l \in Present : j = JobOf(l)
        OBVIOUS
      <4>3. k = l
        BY <3>3, <4>1, <4>2
      <4> QED
        BY <4>1, <4>2, <4>3
    <3> HIDE DEF jobs
    <3>2. PICK svc : svc = a.svc
      OBVIOUS
    <3>4. \A j \in jobs : JobTracks(svc, j)'
      BY <1>4, <1>5, <3>1, <3>2 DEF JobTracks
    <3>5. task'[t].svc = svc
      BY <1>2, <3>2
    <3> QED
      BY <1>2, <3>3, <3>4, <3>5 DEF JobsTrack, JobTracks
  <2>6. SeenTracks(t)'
    BY <1>2 DEF SeenTracks
  <2>7. ASSUME NEW u \in Tasks \ {t} PROVE SeenTracks(u)' /\ JobsTrack(u)'
    <3>1. task'[u] = task[u] /\ SeenTracks(u) /\ JobsTrack(u)
      BY <1>2, <2>1 DEF Tracked
    <3>2. SeenTracks(u)'
      BY <1>4, <1>5, <3>1 DEF SeenTracks
    <3>3. JobsTrack(u)'
      BY <1>4, <1>5, <3>1 DEF JobsTrack, JobTracks
    <3> QED
      BY <3>2, <3>3
  <2> QED
    BY <2>2, <2>3, <2>5, <2>6, <2>7 DEF Tracked
<1> QED
  BY <1>6, <1>7 DEF OverlapInv

(* A thread that takes a job is a sync.                                    *)
LEMMA JobIsSyncs ==
  ASSUME OverlapInv, NEW t \in Tasks, NEW j \in Jobs(t)
  PROVE  /\ task[t].at = "write" /\ j \in task[t].jobs /\ task[t].kind \in Syncs
         /\ j \in Job /\ task[t].svc \in Providers
         /\ task[t].jobs \in SUBSET Job
<1>1. task[t].at = "write" /\ j \in task[t].jobs
  BY DEF Jobs
<1> QED
  BY <1>1, HeldType DEF OverlapInv, PauseHasNoJobs, Kinds

LEMMA DeleteKeeps ==
  ASSUME OverlapInv, TypeOK', NEW t \in Tasks, NEW j \in Jobs(t), DeleteForReset(t, j)
  PROVE  OverlapInv'
<1> DEFINE d == [j EXCEPT !.rid = None, !.deleted = TRUE]
<1>1. /\ task[t].at = "write" /\ j \in task[t].jobs /\ task[t].kind \in Syncs
      /\ j \in Job /\ task[t].svc \in Providers /\ task[t].jobs \in SUBSET Job
  BY JobIsSyncs
<1>2. /\ task' = [task EXCEPT ![t].jobs = (@ \ {j}) \cup {d}]
      /\ task \in [Tasks -> Activity]
  BY DEF DeleteForReset, OverlapInv, TypeOK
<1>3. /\ task'[t].at = "write" /\ task'[t].kind = task[t].kind /\ task'[t].svc = task[t].svc
      /\ task'[t].jobs = (task[t].jobs \ {j}) \cup {d}
      /\ \A u \in Tasks \ {t} : task'[u] = task[u]
  BY <1>1, <1>2
<1>4. PauseHasNoJobs'
  BY <1>1, <1>3 DEF OverlapInv, PauseHasNoJobs, Syncs
<1>5. ASSUME ~overlapped' PROVE Tracked'
  <2>1. ~overlapped /\ Tracked /\ Patch(task[t].svc, j.rid, None) /\ j.rid # None
    BY <1>5 DEF DeleteForReset, OverlapInv
  <2>2. PICK svc \in Providers : svc = task[t].svc
    BY <1>1
  <2>3. j.rid \in Rids /\ remote \in [Providers -> [Rids -> Rule \cup {None}]]
    BY <1>1, <2>1 DEF Job, OverlapInv, TypeOK
  <2>4. /\ remote'[svc] = [remote[svc] EXCEPT ![j.rid] = None]
        /\ \A s \in Providers \ {svc} : remote'[s] = remote[s]
    BY <2>1, <2>2, <2>3 DEF Patch
  <2>5. /\ RulesOf(svc)' = RulesOf(svc) \ {j.rid}
        /\ \A r \in RulesOf(svc)' : remote'[svc][r] = remote[svc][r]
    BY <2>2, <2>3, <2>4 DEF RulesOf
  <2>6. OneRulePerKeyword(svc)'
    BY <2>1, <2>5 DEF Tracked, OneRulePerKeyword
  <2>7. d.kid = j.kid /\ d.rid = None
    BY <1>1 DEF Job
  <2>8. j.rid \in RulesOf(svc) /\ remote[svc][j.rid].kid = j.kid
    BY <1>1, <2>1, <2>2 DEF Tracked, JobsTrack, JobTracks
  <2>9. \A r \in RulesOf(svc)' : remote'[svc][r].kid # j.kid
    BY <2>1, <2>5, <2>8 DEF Tracked, OneRulePerKeyword
  <2>10. ASSUME NEW i \in task[t].jobs \ {j}
         PROVE  JobTracks(svc, i)' /\ i.kid # j.kid
    <3>1. JobTracks(svc, i) /\ i.kid # j.kid
      BY <1>1, <2>1, <2>2 DEF Tracked, JobsTrack
    <3> QED
      BY <3>1, <2>5, <2>8 DEF JobTracks
  <2>11. JobTracks(svc, d)'
    BY <2>7, <2>9 DEF JobTracks
  <2>12. \A i \in task'[t].jobs : JobTracks(svc, i)'
    BY <1>3, <2>10, <2>11
  <2>13. \A i, k \in task'[t].jobs : i.kid = k.kid => i = k
    BY <1>1, <1>3, <2>1, <2>7, <2>10 DEF Tracked, JobsTrack
  <2>14. JobsTrack(t)'
    BY <1>3, <2>2, <2>12, <2>13 DEF JobsTrack, JobTracks
  <2> QED
    BY <1>1, <1>3, <2>1, <2>2, <2>4, <2>6, <2>14, WriterStep
<1> QED
  BY <1>4, <1>5 DEF OverlapInv

(* A finished job leaves the jobs of the others as they were.              *)
LEMMA JobEndsKeeps ==
  ASSUME OverlapInv, NEW t \in Tasks, NEW j \in Jobs(t), JobEnds(t, j)
  PROVE  /\ task'[t].at = "write" /\ task'[t].kind = task[t].kind
         /\ task'[t].svc = task[t].svc
         /\ task'[t].jobs = task[t].jobs \ {j}
         /\ \A u \in Tasks \ {t} : task'[u] = task[u]
<1>1. task[t].at = "write" /\ task \in [Tasks -> Activity]
  BY JobIsSyncs DEF OverlapInv, TypeOK
<1>2. task[t] \in [at : {"write"}, kind : Kinds, svc : Providers, gate : BOOLEAN,
                  price : Prices \cup {None}, jobs : SUBSET Job, halts : SUBSET Rids]
  BY <1>1 DEF Activity, Idle
<1> QED
  BY <1>1, <1>2 DEF JobEnds

(* Saving a job: its keyword has the saved rule, and only that one.        *)
LEMMA SaveKeeps ==
  ASSUME OverlapInv, TypeOK', NEW t \in Tasks, NEW j \in Jobs(t),
         CreateRule(t, j) \/ PatchRule(t, j)
  PROVE  OverlapInv'
<1>1. /\ task[t].at = "write" /\ j \in task[t].jobs /\ task[t].kind \in Syncs
      /\ j \in Job /\ task[t].svc \in Providers /\ task[t].jobs \in SUBSET Job
  BY JobIsSyncs
<1>2. JobEnds(t, j) /\ UNCHANGED overlapped
  BY DEF CreateRule, PatchRule
<1>3. /\ task'[t].at = "write" /\ task'[t].kind = task[t].kind
      /\ task'[t].svc = task[t].svc
      /\ task'[t].jobs = task[t].jobs \ {j}
      /\ \A u \in Tasks \ {t} : task'[u] = task[u]
  BY <1>2, JobEndsKeeps
<1>4. PauseHasNoJobs'
  BY <1>1, <1>3 DEF OverlapInv, PauseHasNoJobs, Syncs
<1>5. ASSUME ~overlapped' PROVE Tracked'
  <2>1. ~overlapped /\ Tracked
    BY <1>2, <1>5 DEF OverlapInv
  <2>2. PICK svc \in Providers : svc = task[t].svc
    BY <1>1
  <2>3. Saved(t, j).kid = j.kid /\ Saved(t, j) \in Rule /\ Saved(t, j) # None
    <3>1. Saved(t, j) \in Rule
      BY <1>1, WriteType DEF OverlapInv
    <3> QED
      BY <3>1, NoneAssumption DEF Saved
  <2>4. OneRulePerKeyword(svc) /\ JobTracks(svc, j)
    BY <1>1, <2>1, <2>2 DEF Tracked, JobsTrack
  <2>5. \A i \in task[t].jobs \ {j} : JobTracks(svc, i) /\ i.kid # j.kid
    BY <1>1, <2>1, <2>2 DEF Tracked, JobsTrack
  <2>6. \A i, k \in task'[t].jobs : i.kid = k.kid => i = k
    BY <1>1, <1>3, <2>1 DEF Tracked, JobsTrack
  <2>7. CASE UNCHANGED remote
    <3>1. RulesOf(svc)' = RulesOf(svc)
      BY <2>7 DEF RulesOf
    <3>2. OneRulePerKeyword(svc)' /\ \A i \in task[t].jobs \ {j} : JobTracks(svc, i)'
      BY <2>4, <2>5, <2>7, <3>1 DEF OneRulePerKeyword, JobTracks
    <3>3. JobsTrack(t)'
      BY <1>3, <2>2, <2>6, <3>2 DEF JobsTrack, JobTracks
    <3> QED
      BY <1>1, <1>3, <2>1, <2>2, <2>7, <3>2, <3>3, WriterStep
  <2>8. ASSUME NEW r \in Rids, Patch(svc, r, Saved(t, j)),
               \/ r \notin RulesOf(svc) /\ j.rid = None
               \/ r \in RulesOf(svc) /\ r = j.rid /\ j.rid # None
        PROVE  Tracked'
    <3>1. /\ remote'[svc] = [remote[svc] EXCEPT ![r] = Saved(t, j)]
          /\ remote[svc] \in [Rids -> Rule \cup {None}]
          /\ \A s \in Providers \ {svc} : remote'[s] = remote[s]
      BY <2>8 DEF Patch, OverlapInv, TypeOK
    <3>2. /\ RulesOf(svc)' = RulesOf(svc) \cup {r}
          /\ remote'[svc][r].kid = j.kid
          /\ \A q \in RulesOf(svc) \ {r} : remote'[svc][q] = remote[svc][q]
      BY <2>2, <2>3, <3>1 DEF RulesOf
    <3>3. \A q \in RulesOf(svc) \ {r} : remote[svc][q].kid # j.kid
      BY <2>4, <2>8 DEF JobTracks, OneRulePerKeyword
    <3>4. OneRulePerKeyword(svc)'
      BY <2>4, <3>2, <3>3 DEF OneRulePerKeyword
    <3>5. ASSUME NEW i \in task[t].jobs \ {j} PROVE JobTracks(svc, i)'
      <4>1. JobTracks(svc, i) /\ i.kid # j.kid
        BY <2>5
      <4>2. i.rid # None => i.rid # r
        BY <2>4, <2>8, <4>1 DEF JobTracks
      <4> QED
        BY <4>1, <4>2, <3>2 DEF JobTracks
    <3>6. JobsTrack(t)'
      BY <1>3, <2>2, <2>6, <3>5 DEF JobsTrack, JobTracks
    <3> QED
      BY <1>1, <1>3, <2>1, <2>2, <3>1, <3>4, <3>6, WriterStep
  <2>9. CASE CreateRule(t, j)
    <3>1. (CHOOSE r \in Rids \ RulesOf(svc) : TRUE) \in Rids \ RulesOf(svc)
          \/ Rids \ RulesOf(svc) = {}
      OBVIOUS
    <3> QED
      BY <2>2, <2>7, <2>8, <2>9, <3>1 DEF CreateRule
  <2>10. CASE PatchRule(t, j)
    BY <2>2, <2>7, <2>8, <2>10 DEF PatchRule, RulesOf
  <2> QED
    BY <2>9, <2>10
<1> QED
  BY <1>4, <1>5 DEF OverlapInv

(* Pausing a rule leaves it where it is, with its name.                    *)
LEMMA HaltKeeps ==
  ASSUME OverlapInv, TypeOK', NEW t \in Tasks, NEW r \in Halts(t), HaltRule(t, r)
  PROVE  OverlapInv'
<1>1. task[t] \in [at : {"write"}, kind : Kinds, svc : Providers, gate : BOOLEAN,
                   price : Prices \cup {None}, jobs : SUBSET Job, halts : SUBSET Rids]
  BY DEF HaltRule, OverlapInv, TypeOK, Activity, Idle
<1>2. task' = [task EXCEPT ![t].halts = @ \ {r}] /\ task \in [Tasks -> Activity]
  BY DEF HaltRule, OverlapInv, TypeOK
<1>3. /\ \A u \in Tasks \ {t} : task'[u] = task[u]
      /\ task'[t].at = "write" /\ task'[t].kind = task[t].kind
      /\ task'[t].svc = task[t].svc /\ task'[t].jobs = {}
  BY <1>1, <1>2 DEF HaltRule
<1>4. \A svc \in Providers : /\ RulesOf(svc)' = RulesOf(svc)
                            /\ \A q \in RulesOf(svc) : remote'[svc][q].kid = remote[svc][q].kid
  <2>1. CASE UNCHANGED remote
    BY <2>1 DEF RulesOf
  <2>2. CASE /\ r \in RulesOf(task[t].svc)
             /\ remote' = [remote EXCEPT ![task[t].svc][r].active = FALSE]
    <3>1. PICK svc \in Providers : svc = task[t].svc
      BY <1>1
    <3>2. remote[svc][r] \in Rule /\ r \in Rids /\ remote[svc] \in [Rids -> Rule \cup {None}]
      BY <2>2, <3>1 DEF RulesOf, OverlapInv, TypeOK
    <3>3. PICK rule : rule = [remote[svc][r] EXCEPT !.active = FALSE]
      OBVIOUS
    <3>4. rule.kid = remote[svc][r].kid /\ rule \in Rule /\ rule # None
      BY <3>2, <3>3, NoneAssumption DEF Rule
    <3>5. /\ remote'[svc] = [remote[svc] EXCEPT ![r] = rule]
          /\ \A s \in Providers \ {svc} : remote'[s] = remote[s]
      <4>1. remote' = [remote EXCEPT ![svc] = [remote[svc] EXCEPT ![r] =
                                               [remote[svc][r] EXCEPT !.active = FALSE]]]
        BY <2>2, <3>1
      <4>2. remote' = [remote EXCEPT ![svc] = [remote[svc] EXCEPT ![r] = rule]]
        BY <3>3, <4>1
      <4> QED
        BY <4>2 DEF OverlapInv, TypeOK
    <3>6. RulesOf(svc)' = RulesOf(svc)
      <4>1. remote[svc][r] # None
        BY <2>2, <3>1 DEF RulesOf
      <4>2. \A q \in Rids : remote'[svc][q] # None <=> remote[svc][q] # None
        BY <3>2, <3>4, <3>5, <4>1
      <4> QED
        BY <4>2 DEF RulesOf
    <3>7. \A q \in RulesOf(svc) : remote'[svc][q].kid = remote[svc][q].kid
      BY <3>2, <3>4, <3>5 DEF RulesOf
    <3>8. \A s \in Providers \ {svc} : RulesOf(s)' = RulesOf(s)
      BY <3>5 DEF RulesOf
    <3> QED
      BY <3>5, <3>6, <3>7, <3>8
  <2> QED
    BY <2>1, <2>2 DEF HaltRule
<1>5. PauseHasNoJobs'
  BY <1>3 DEF OverlapInv, PauseHasNoJobs
<1>6. ASSUME ~overlapped' PROVE Tracked'
  <2>1. Tracked
    BY <1>6 DEF HaltRule, OverlapInv
  <2>2. \A u \in Tasks : Syncing(u)' <=> Syncing(u)
    BY <1>1, <1>3 DEF Syncing
  <2>3. Alone'
    BY <1>3, <2>1, <2>2 DEF Tracked, Alone
  <2>4. \A svc \in Providers : OneRulePerKeyword(svc)'
    BY <1>4, <2>1 DEF Tracked, OneRulePerKeyword
  <2>5. SeenTracks(t)' /\ JobsTrack(t)'
    BY <1>3 DEF SeenTracks, JobsTrack
  <2>6. ASSUME NEW u \in Tasks \ {t} PROVE SeenTracks(u)' /\ JobsTrack(u)'
    <3>1. task'[u] = task[u] /\ SeenTracks(u) /\ JobsTrack(u)
      BY <1>3, <2>1 DEF Tracked
    <3>2. CASE task[u].at \in {"read", "write"}
      <4>1. PICK svc \in Providers : svc = task[u].svc
        BY <3>2, HeldType DEF OverlapInv
      <4>2. \A j : JobTracks(svc, j) => JobTracks(svc, j)'
        BY <1>4 DEF JobTracks
      <4>3. JobsTrack(u)'
        BY <3>1, <4>1, <4>2 DEF JobsTrack, JobTracks
      <4>4. SeenTracks(u)'
        BY <1>4, <3>1, <4>1 DEF SeenTracks
      <4> QED
        BY <4>3, <4>4
    <3>3. CASE task[u].at \notin {"read", "write"}
      BY <3>1, <3>3 DEF SeenTracks, JobsTrack
    <3> QED
      BY <3>2, <3>3
  <2> QED
    BY <2>3, <2>4, <2>5, <2>6 DEF Tracked
<1> QED
  BY <1>5, <1>6 DEF OverlapInv

LEMMA RequestKeeps == ASSUME OverlapInv, TypeOK', Request PROVE OverlapInv'
<1>1. \E kind \in Kinds : Edit(kind)
  BY DEF Request, CreateKeyword, UpdateKeyword, ToggleKeyword, DeleteKeyword, UpdateProduct,
         UpdateSettings, RestoreBackup, SyncByHand, Kinds, Syncs
<1>2. PICK kind \in Kinds : Edit(kind)
  BY <1>1
<1>3. PICK t \in Tasks : task' = [task EXCEPT ![t] = Due(kind)]
  BY <1>2 DEF Edit, Schedule
<1>4. task'[t].at = "due" /\ \A u \in Tasks \ {t} : task'[u] = task[u]
  BY <1>3 DEF OverlapInv, TypeOK, Due
<1> QED
  BY <1>2, <1>4, OutsideStep DEF Edit

LEMMA WorkKeeps == ASSUME OverlapInv, TypeOK', NEW t \in Tasks, Work(t) PROVE OverlapInv'
<1>0. task \in [Tasks -> Activity]
  BY DEF OverlapInv, TypeOK
<1>1. CASE Start(t)
  BY <1>0, <1>1, OutsideStep DEF Start, Become
<1>2. CASE ListFails(t)
  BY <1>0, <1>2, OutsideStep DEF ListFails, Become
<1>3. CASE ListForPause(t)
  <2>1. PICK halts \in SUBSET Rids :
          Become(t, [at |-> "write", kind |-> "pause", svc |-> task[t].svc, gate |-> FALSE,
                     price |-> None, jobs |-> {}, halts |-> halts])
    BY <1>3 DEF ListForPause
  <2>2. /\ task'[t].at = "write" /\ task'[t].kind = "pause" /\ task'[t].jobs = {}
        /\ \A u \in Tasks \ {t} : task'[u] = task[u]
    BY <1>0, <2>1 DEF Become
  <2> QED
    BY <1>3, <2>2, OutsideStep DEF ListForPause
<1>4. CASE Finish(t)
  <2>1. task'[t].at \in {"list", "done"} /\ \A u \in Tasks \ {t} : task'[u] = task[u]
    BY <1>0, <1>4 DEF Finish, Become
  <2> QED
    BY <1>4, <2>1, OutsideStep DEF Finish
<1>5. CASE Close(t)
  BY <1>0, <1>5, OutsideStep DEF Close, Become, Idle
<1> QED
  BY <1>1, <1>2, <1>3, <1>4, <1>5, ListKeeps, ReadKeeps, DeleteKeeps, SaveKeeps, HaltKeeps
     DEF Work

LEMMA RestartKeeps == ASSUME OverlapInv, TypeOK', Restart PROVE OverlapInv'
<1>1. \A t \in Tasks : task'[t].at = "idle"
  BY DEF Restart, Idle
<1>2. \A svc : RulesOf(svc)' = RulesOf(svc)
  BY DEF Restart, RulesOf
<1>3. \A svc \in Providers : ~overlapped => OneRulePerKeyword(svc)'
  BY <1>2 DEF Restart, OverlapInv, Tracked, OneRulePerKeyword
<1> QED
  BY <1>1, <1>3 DEF Restart, OverlapInv, PauseHasNoJobs, Tracked, Alone, Syncing,
     SeenTracks, JobsTrack

LEMMA OverlapStep == OverlapInv /\ [Next]_vars => OverlapInv'
<1> SUFFICES ASSUME OverlapInv, [Next]_vars PROVE OverlapInv'
  OBVIOUS
<1>1. TypeOK'
  BY TypeStep DEF OverlapInv
<1>2. CASE UNCHANGED vars
  <2>1. \A svc : RulesOf(svc)' = RulesOf(svc)
    BY <1>2 DEF vars, RulesOf
  <2>2. UNCHANGED <<task, remote, overlapped>>
    BY <1>2 DEF vars
  <2>3. Tracked => Tracked'
    BY <2>1, <2>2 DEF Tracked, Alone, Syncing, OneRulePerKeyword, SeenTracks, JobsTrack, JobTracks
  <2> QED
    BY <1>1, <2>2, <2>3 DEF OverlapInv, PauseHasNoJobs
<1> QED
  BY <1>1, <1>2, RequestKeeps, WorkKeeps, RestartKeeps DEF Next

(* A keyword gets a second rule only after one sync listed inside the run  *)
(* of another of the same provider, or after a reset's delete failed: no   *)
(* crash, failed call, rename, reused id or change of provider alone ever  *)
(* duplicates a rule.                                                      *)
THEOREM DuplicatesNeedOverlap == Spec => []DuplicateNeedsOverlap
<1>1. OverlapInv => DuplicateNeedsOverlap
  BY DEF OverlapInv, Tracked, DuplicateNeedsOverlap
<1> QED
  BY <1>1, OverlapInit, OverlapStep, PTL DEF Spec

=============================================================================
