----------------------------- MODULE KeywordSync -----------------------------
(***************************************************************************)
(* Keywords and the comment rules that mirror them at the two automation   *)
(* providers.  Requests of the panel change the database and schedule a    *)
(* background thread; the thread lists the rules of the provider, reads    *)
(* the keywords and repairs the rules one call after the other, so threads *)
(* overlap each other and the next requests.  ZernioService and            *)
(* PostZenService run the same sync_all_keywords against their own rules.  *)
(*                                                                         *)
(* A rule is named KW_<id>_<word>; the model keeps the id and the word.    *)
(* The direct and the public reply of a row are its text, what the linked  *)
(* product adds when the reply is rendered is the price, and the follow    *)
(* gate of the settings is on or off.  Buttons, delays and variations are  *)
(* sent with the text of the row by the same call and are left out.        *)
(***************************************************************************)
EXTENDS Naturals, FiniteSets

CONSTANTS Ids,        \* ids of keyword rows
          Words,      \* spellings of a keyword
          Texts,      \* contents of a row
          Prices,     \* what the product of the replies reads
          Rids,       \* ids a provider gives to rules; the account's quota
          Tasks,      \* background threads that may exist at once
          None,
          MaxEdits,   \* bound on requests
          MaxFaults,  \* bound on calls of a provider that fail
          MaxRestarts \* bound on restarts of the server

ASSUME BoundsAssumption == MaxEdits \in Nat /\ MaxFaults \in Nat /\ MaxRestarts \in Nat

Providers == {"zernio", "postzen"}

VARIABLES rows,       \* keywords table
          price,      \* Product.price as the replies render it
          gate,       \* BotSetting.follow_gate_enabled
          provider,   \* BotSetting.automation_provider, applied
          remote,     \* the rules each provider holds
          task,       \* what each background thread is doing
          edits, faults, restarts,
          disturbed,  \* history: threads that met an edit, another thread or a fault
          overlapped  \* history: a sync listed inside another's run, or a reset failed to delete

settings == <<price, gate, provider>>
bounds == <<edits, faults, restarts>>
vars == <<rows, settings, remote, task, bounds, disturbed, overlapped>>

Row == [word : Words, text : Texts, active : BOOLEAN]
Rule == [kid : Ids, word : Words, text : Texts, price : Prices,
         gate : BOOLEAN, active : BOOLEAN]

\* What a sync keeps of a listed rule, and what it has decided to do for a
\* keyword: the rule to patch (None: to create) and whether a reset has just
\* deleted the old one.
Listed == [rid : Rids, kid : Ids, word : Words, active : BOOLEAN]
Job == [kid : Ids, word : Words, text : Texts, rid : Rids \cup {None}, deleted : BOOLEAN]

ASSUME NoneAssumption == None \notin Row \cup Rule \cup Listed \cup Prices \cup Rids

Syncs == {"sync", "reset"}
Kinds == Syncs \cup {"pause"}

Idle == [at |-> "idle"]
Due(kind) == [at |-> "due", kind |-> kind]

Activity ==
  {Idle} \cup [at : {"due"}, kind : Kinds]
         \cup [at : {"list"}, kind : Kinds, svc : Providers, gate : BOOLEAN]
         \cup [at : {"read"}, kind : Syncs, svc : Providers, gate : BOOLEAN,
               seen : SUBSET Listed]
         \cup [at : {"write"}, kind : Kinds, svc : Providers, gate : BOOLEAN,
               price : Prices \cup {None}, jobs : SUBSET Job, halts : SUBSET Rids]
         \cup [at : {"done"}, kind : Kinds, svc : Providers]

Present == {k \in Ids : rows[k] # None}
Running == {t \in Tasks : task[t].at \notin {"idle", "due"}}
RulesOf(svc) == {r \in Rids : remote[svc][r] # None}

Init == /\ rows = [k \in Ids |-> None]
        /\ price \in Prices
        /\ gate = FALSE
        /\ provider = "zernio"
        /\ remote = [svc \in Providers |-> [r \in Rids |-> None]]
        /\ task = [t \in Tasks |-> Idle]
        /\ edits = 0 /\ faults = 0 /\ restarts = 0
        /\ disturbed = {}
        /\ overlapped = FALSE

-----------------------------------------------------------------------------
(* Requests.  Each commits and then schedules its background task.         *)

Schedule(kind) == \E t \in Tasks : /\ task[t] = Idle
                                   /\ task' = [task EXCEPT ![t] = Due(kind)]

Edit(kind) == /\ edits < MaxEdits
              /\ edits' = edits + 1
              /\ disturbed' = disturbed \cup Running
              /\ Schedule(kind)
              /\ UNCHANGED <<remote, faults, restarts, overlapped>>

\* The look-up of duplicates and the unique column: no other row has the word.
Free(word, k) == \A i \in Present \ {k} : rows[i].word # word

\* The id may be one an earlier, deleted row had.
CreateKeyword(k, w, x) ==
  /\ rows[k] = None
  /\ Free(w, k)
  /\ rows' = [rows EXCEPT ![k] = [word |-> w, text |-> x, active |-> TRUE]]
  /\ Edit("sync")
  /\ UNCHANGED settings

UpdateKeyword(k, w, x, a) ==
  /\ rows[k] # None
  /\ Free(w, k)
  /\ rows' = [rows EXCEPT ![k] = [word |-> w, text |-> x, active |-> a]]
  /\ Edit("sync")
  /\ UNCHANGED settings

ToggleKeyword(k) ==
  /\ rows[k] # None
  /\ rows' = [rows EXCEPT ![k].active = ~@]
  /\ Edit("sync")
  /\ UNCHANGED settings

DeleteKeyword(k) ==
  /\ rows[k] # None
  /\ rows' = [rows EXCEPT ![k] = None]
  /\ Edit("sync")
  /\ UNCHANGED settings

\* update_product, and update_order where it moves stock.
UpdateProduct(p) ==
  /\ price' = p
  /\ Edit("sync")
  /\ UNCHANGED <<rows, gate, provider>>

\* The task decides by the bot_enabled its own request committed (b), not by
\* the row as it is when it runs; no other code here reads bot_enabled, so the
\* column is no variable.
UpdateSettings(g, b, svc) ==
  /\ gate' = g /\ provider' = svc
  /\ Edit(IF b THEN "sync" ELSE "pause")
  /\ UNCHANGED <<rows, price>>

\* A backup of one keyword, the settings and the products: the row with exactly
\* that word is overwritten, else one is added; a sync follows in the thread of
\* the request, whatever bot_enabled the file brings.
RestoreBackup(k, w, x, a, g, p) ==
  /\ IF \E i \in Present : rows[i].word = w
       THEN k \in Present /\ rows[k].word = w
       ELSE rows[k] = None
  /\ rows' = [rows EXCEPT ![k] = [word |-> w, text |-> x, active |-> a]]
  /\ gate' = g /\ price' = p
  /\ Edit("sync")
  /\ UNCHANGED provider

\* POST /keywords/sync-zernio runs in the thread of its request.
SyncByHand(reset) ==
  /\ Edit(IF reset THEN "reset" ELSE "sync")
  /\ UNCHANGED <<rows, settings>>

Request ==
  \/ \E k \in Ids, w \in Words, x \in Texts :
       \/ CreateKeyword(k, w, x)
       \/ \E a \in BOOLEAN : \/ UpdateKeyword(k, w, x, a)
                             \/ \E g \in BOOLEAN, p \in Prices :
                                  RestoreBackup(k, w, x, a, g, p)
  \/ \E k \in Ids : ToggleKeyword(k) \/ DeleteKeyword(k)
  \/ \E p \in Prices : UpdateProduct(p)
  \/ \E g, b \in BOOLEAN, svc \in Providers : UpdateSettings(g, b, svc)
  \/ \E reset \in BOOLEAN : SyncByHand(reset)

-----------------------------------------------------------------------------
(* Background threads.                                                     *)

Become(t, a) == task' = [task EXCEPT ![t] = a]

\* A call that fails (answer lost before it took effect, an error status) is
\* logged and the thread goes on; a call that took effect although its answer
\* was lost is, to the code and here, a call that succeeded.
Fault == /\ faults < MaxFaults
         /\ faults' = faults + 1
         /\ disturbed' = disturbed \cup Running

NoFault == UNCHANGED <<faults, disturbed>>

Patch(svc, r, rule) == remote' = [remote EXCEPT ![svc][r] = rule]

\* A sync fixes its provider and reads the follow gate; a pause begins with
\* the first provider.
Start(t) ==
  /\ task[t].at = "due"
  /\ Become(t, [at   |-> "list", kind |-> task[t].kind,
                svc  |-> IF task[t].kind = "pause" THEN "zernio" ELSE provider,
                gate |-> IF task[t].kind = "pause" THEN FALSE ELSE gate])
  /\ disturbed' = IF Running = {} THEN disturbed \ {t} ELSE disturbed \cup Running \cup {t}
  /\ UNCHANGED <<rows, settings, remote, bounds, overlapped>>

ListedRules(svc) ==
  {[rid |-> r, kid |-> remote[svc][r].kid, word |-> remote[svc][r].word,
    active |-> remote[svc][r].active] : r \in RulesOf(svc)}

SameName(a, b) == a.kid = b.kid /\ a.word = b.word

\* The dictionary by name keeps one of several rules with the same name.
ByName(L) == {S \in SUBSET L : /\ \A a, b \in S : SameName(a, b) => a = b
                               /\ \A a \in L : \E b \in S : SameName(a, b)}

\* Another sync of this provider between its own list and its last save.
InsideAnother(t) == \E u \in Tasks \ {t} : /\ task[u].at \in {"read", "write"}
                                           /\ task[u].kind \in Syncs
                                           /\ task[u].svc = task[t].svc

List(t) ==
  /\ task[t].at = "list" /\ task[t].kind \in Syncs
  /\ \E S \in ByName(ListedRules(task[t].svc)) :
       Become(t, [at |-> "read", kind |-> task[t].kind, svc |-> task[t].svc,
                  gate |-> task[t].gate, seen |-> S])
  /\ overlapped' = (overlapped \/ InsideAnother(t))
  /\ NoFault
  /\ UNCHANGED <<rows, settings, remote, edits, restarts>>

\* raise_for_status: the sync ends before it changed anything.
ListFails(t) ==
  /\ task[t].at = "list" /\ task[t].kind \in Syncs
  /\ Become(t, [at |-> "done", kind |-> task[t].kind, svc |-> task[t].svc])
  /\ Fault
  /\ UNCHANGED <<rows, settings, remote, edits, restarts, overlapped>>

\* Broken: a renamed keyword no longer recognises its rule.
FoundByNameOnly(S, k, w) == {s \in S : s.kid = k /\ s.word = w}

\* The rule with the exact name, else one with the prefix KW_<id>_.
Found(S, k, w) == LET exact == {s \in S : s.kid = k /\ s.word = w}
                  IN  IF exact # {} THEN exact ELSE {s \in S : s.kid = k}

\* The keywords are read once; what follows works from this copy.
ReadKeywords(t) ==
  /\ task[t].at = "read"
  /\ LET a == task[t] IN
     \E f \in [Present -> a.seen \cup {None}] :
       /\ \A k \in Present : LET F == Found(a.seen, k, rows[k].word)
                             IN  IF F = {} THEN f[k] = None ELSE f[k] \in F
       /\ Become(t, [at |-> "write", kind |-> a.kind, svc |-> a.svc, gate |-> a.gate,
                     price |-> None,
                     jobs  |-> {[kid |-> k, word |-> rows[k].word, text |-> rows[k].text,
                                 rid |-> IF f[k] = None THEN None ELSE f[k].rid,
                                 deleted |-> FALSE] : k \in {i \in Present : rows[i].active}},
                     halts |-> {f[k].rid : k \in {i \in Present : /\ ~rows[i].active
                                                                  /\ f[i] # None
                                                                  /\ f[i].active}}
                               \cup {s.rid : s \in {s \in a.seen : s.kid \notin Present
                                                                    /\ s.active}}])
  /\ NoFault
  /\ UNCHANGED <<rows, settings, remote, edits, restarts, overlapped>>

\* The keyword whose turn it is: after a reset's delete its create comes next.
Jobs(t) == IF task[t].at = "write" THEN task[t].jobs ELSE {}
Halts(t) == IF task[t].at = "write" THEN task[t].halts ELSE {}

Turn(t, j) == j \in Jobs(t) /\ \A i \in Jobs(t) : i.deleted => i = j

\* Broken: the reply is rendered before its product was loaded.
RenderedUnloaded(t) == task[t].price

\* The linked product is loaded with the first reply and kept by the session.
Rendered(t) == IF task[t].price = None THEN price ELSE task[t].price

\* Broken: a patch leaves isActive as it was.
SavedAsPaused(t, j) ==
  [kid |-> j.kid, word |-> j.word, text |-> j.text, price |-> Rendered(t), gate |-> task[t].gate,
   active |-> IF j.rid = None THEN TRUE ELSE remote[task[t].svc][j.rid].active]

Saved(t, j) == [kid |-> j.kid, word |-> j.word, text |-> j.text, price |-> Rendered(t),
                gate |-> task[t].gate, active |-> TRUE]

JobEnds(t, j) == task' = [task EXCEPT ![t].jobs = @ \ {j}, ![t].price = Rendered(t)]

\* delete_comment_automation: its answer is not looked at.
DeleteForReset(t, j) ==
  /\ task[t].at = "write" /\ task[t].kind = "reset"
  /\ Turn(t, j) /\ j.rid # None
  /\ task' = [task EXCEPT ![t].jobs = (@ \ {j}) \cup {[j EXCEPT !.rid = None, !.deleted = TRUE]}]
  /\ \/ /\ Patch(task[t].svc, j.rid, None)
        /\ NoFault
        /\ UNCHANGED overlapped
     \/ /\ Fault
        /\ overlapped' = TRUE
        /\ UNCHANGED remote
  /\ UNCHANGED <<rows, settings, edits, restarts>>

\* POST: the provider makes a new, active rule, or refuses for its quota.
CreateRule(t, j) ==
  /\ task[t].at = "write"
  /\ Turn(t, j) /\ j.rid = None
  /\ JobEnds(t, j)
  /\ LET free == Rids \ RulesOf(task[t].svc) IN
     \/ /\ free # {}
        /\ Patch(task[t].svc, CHOOSE r \in free : TRUE, Saved(t, j))
        /\ NoFault
     \/ /\ UNCHANGED remote
        /\ IF free # {} THEN Fault
           ELSE disturbed' = disturbed \cup Running /\ UNCHANGED faults
  /\ UNCHANGED <<rows, settings, edits, restarts, overlapped>>

\* PATCH with isActive; the rule may be gone by now (404).
PatchRule(t, j) ==
  /\ task[t].at = "write" /\ task[t].kind = "sync"
  /\ Turn(t, j) /\ j.rid # None
  /\ JobEnds(t, j)
  /\ \/ /\ j.rid \in RulesOf(task[t].svc)
        /\ Patch(task[t].svc, j.rid, Saved(t, j))
        /\ NoFault
     \/ /\ j.rid \notin RulesOf(task[t].svc)
        /\ UNCHANGED remote
        /\ NoFault
     \/ /\ Fault
        /\ UNCHANGED remote
  /\ UNCHANGED <<rows, settings, edits, restarts, overlapped>>

\* set_comment_automation_active(id, False), for what was active when listed.
HaltRule(t, r) ==
  /\ task[t].at = "write" /\ task[t].jobs = {}
  /\ r \in task[t].halts
  /\ task' = [task EXCEPT ![t].halts = @ \ {r}]
  /\ \/ /\ r \in RulesOf(task[t].svc)
        /\ remote' = [remote EXCEPT ![task[t].svc][r].active = FALSE]
        /\ NoFault
     \/ /\ r \notin RulesOf(task[t].svc)
        /\ UNCHANGED remote
        /\ NoFault
     \/ /\ Fault
        /\ UNCHANGED remote
  /\ UNCHANGED <<rows, settings, edits, restarts, overlapped>>

\* pause_all_automations lists the rules of each provider, whatever their name.
ListForPause(t) ==
  /\ task[t].at = "list" /\ task[t].kind = "pause"
  /\ \E halts \in SUBSET Rids :
       /\ \/ /\ halts = {r \in RulesOf(task[t].svc) : remote[task[t].svc][r].active}
             /\ NoFault
          \/ /\ halts = {}
             /\ Fault
       /\ Become(t, [at |-> "write", kind |-> "pause", svc |-> task[t].svc, gate |-> FALSE,
                     price |-> None, jobs |-> {}, halts |-> halts])
  /\ UNCHANGED <<rows, settings, remote, edits, restarts, overlapped>>

\* Broken: the pause ends with the provider in use.
FinishOneProvider(t) ==
  /\ task[t].at = "write" /\ task[t].jobs = {} /\ task[t].halts = {}
  /\ Become(t, [at |-> "done", kind |-> task[t].kind, svc |-> task[t].svc])
  /\ NoFault
  /\ UNCHANGED <<rows, settings, remote, edits, restarts, overlapped>>

\* Nothing left to write: the pause turns to the other provider, the rest ends.
Finish(t) ==
  /\ task[t].at = "write" /\ task[t].jobs = {} /\ task[t].halts = {}
  /\ Become(t, IF task[t].kind = "pause" /\ task[t].svc = "zernio"
                 THEN [at |-> "list", kind |-> "pause", svc |-> "postzen", gate |-> FALSE]
                 ELSE [at |-> "done", kind |-> task[t].kind, svc |-> task[t].svc])
  /\ NoFault
  /\ UNCHANGED <<rows, settings, remote, edits, restarts, overlapped>>

Close(t) ==
  /\ task[t].at = "done"
  /\ Become(t, Idle)
  /\ disturbed' = disturbed \ {t}
  /\ UNCHANGED <<rows, settings, remote, bounds, overlapped>>

Work(t) == \/ Start(t) \/ List(t) \/ ListFails(t) \/ ReadKeywords(t)
           \/ \E j \in Jobs(t) : \/ DeleteForReset(t, j)
                                  \/ CreateRule(t, j)
                                  \/ PatchRule(t, j)
           \/ \E r \in Halts(t) : HaltRule(t, r)
           \/ ListForPause(t) \/ Finish(t) \/ Close(t)

\* Background tasks live in memory; nothing syncs at the start of the server.
Restart == /\ restarts < MaxRestarts
           /\ restarts' = restarts + 1
           /\ task' = [t \in Tasks |-> Idle]
           /\ disturbed' = {}
           /\ UNCHANGED <<rows, settings, remote, edits, faults, overlapped>>

Next == Request \/ (\E t \in Tasks : Work(t)) \/ Restart

Spec == Init /\ [][Next]_vars

-----------------------------------------------------------------------------
(* Properties.                                                             *)

\* Rows, rules and threads keep their types; bounds are respected.
TypeOK ==
  /\ rows \in [Ids -> Row \cup {None}]
  /\ price \in Prices /\ gate \in BOOLEAN /\ provider \in Providers
  /\ remote \in [Providers -> [Rids -> Rule \cup {None}]]
  /\ task \in [Tasks -> Activity]
  /\ edits \in 0..MaxEdits /\ faults \in 0..MaxFaults /\ restarts \in 0..MaxRestarts
  /\ disturbed \subseteq Tasks
  /\ overlapped \in BOOLEAN

OneRulePerKeyword(svc) == \A r, s \in RulesOf(svc) :
                            remote[svc][r].kid = remote[svc][s].kid => r = s

\* A keyword gets a second rule (its comment would be answered twice, and by
\* name only one of the two is managed) only after one sync listed the rules
\* while another was at work on them, or a reset's delete failed.  Restarts in
\* the middle of a sync, failed or lost calls, renames, reused ids and changes
\* of provider alone never duplicate a rule.
DuplicateNeedsOverlap == ~overlapped => \A svc \in Providers : OneRulePerKeyword(svc)

\* The active rules are those of the active keywords, up to date.
MirroredBy(svc, k) ==
  LET mine == {r \in RulesOf(svc) : remote[svc][r].kid = k /\ remote[svc][r].active}
  IN  IF rows[k] = None THEN mine = {}
      ELSE IF ~rows[k].active THEN mine = {}
      ELSE /\ mine # {}
           /\ \A r \in mine : /\ remote[svc][r].word = rows[k].word
                              /\ remote[svc][r].text = rows[k].text
                              /\ remote[svc][r].price = price
                              /\ remote[svc][r].gate = gate

Undisturbed(t, kinds) == task[t].at = "done" /\ task[t].kind \in kinds /\ t \notin disturbed

\* A sync that met no edit, no other thread and no failed call leaves exactly
\* the rules of the active keywords active, with the current content, whatever
\* earlier threads that were cut short, overtaken or refused left behind:
\* renamed rules, half a reset, rules of deleted keywords, paused rules.
CleanSyncMirrors ==
  \A t \in Tasks : Undisturbed(t, Syncs) /\ OneRulePerKeyword(task[t].svc)
                     => \A k \in Ids : MirroredBy(task[t].svc, k)

\* Switching the bot off silences both providers, also the one not in use, when
\* the pause met no edit, no other thread and no failed call.
CleanPauseSilences ==
  \A t \in Tasks : Undisturbed(t, {"pause"})
                     => \A svc \in Providers : \A r \in RulesOf(svc) : ~remote[svc][r].active

\* "A deleted local rule must stop firing remotely" (zernio_service.py:431):
\* after a sync that met no edit, no other thread and no failed call, no rule
\* of a keyword that no longer exists is active.
DeletedStopsFiring ==
  \A t \in Tasks : Undisturbed(t, Syncs)
                     => \A r \in RulesOf(task[t].svc) :
                          remote[task[t].svc][r].active => remote[task[t].svc][r].kid \in Present

=============================================================================
