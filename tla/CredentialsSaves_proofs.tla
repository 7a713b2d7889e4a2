---------------------- MODULE CredentialsSaves_proofs ----------------------
(***************************************************************************)
(* Proofs about what is saved and applied: the key and the account in the  *)
(* row belong together, and a request that was alone leaves the clients    *)
(* with what is saved.                                                     *)
(***************************************************************************)
EXTENDS Credentials_proofs

Owned(p) == p.acc \in {None, p.key}

(* A restore between its two halves; it holds the pair of the file.        *)
Restoring(s) == s.prog = "restore" /\ s.final

Assigning == {"keys", "ig_key", "ids", "ig_id", "pzn_key", "pzn_id"}
Applying == Assigning \cup {"ensure", "login", "postzen", "return"}

(* What a thread is about to store, unless a look-up is still to come.     *)
Draft(s) ==
  /\ Restoring(s) => s.at \in Applying
  /\ s.at = "ask_postzen" => \/ Owned(s.mine["zernio"])
                             \/ AskedZernio([s.mine EXCEPT !["zernio"] = s.asked], s.mine)
  /\ s.at \notin {"ask_postzen", "ask_zernio"} /\ ~Restoring(s) => Owned(s.mine["zernio"])

MatchInv == ~doubt => Owned(row["zernio"]) /\ \A t \in Threads : Draft(thread[t])

-----------------------------------------------------------------------------
(* A step of t that keeps the others' drafts need only be followed in t.   *)
LEMMA MatchByMover ==
  ASSUME MatchInv, NEW t \in Threads,
         \A u \in Threads \ {t} : thread'[u] = thread[u],
         ~doubt' => ~doubt /\ Owned(row'["zernio"]) /\ Draft(thread'[t])
  PROVE  MatchInv'
  BY DEF MatchInv

(* A thread whose object is that of an idle one.                           *)
LEMMA StopDraft ==
  ASSUME TypeOK, NEW t \in Threads, Stop(t)
  PROVE  Draft(thread'[t])
<1>1. thread'[t] = Idle
  BY DEF Stop, TypeOK
<1>2. Idle.prog = "read" /\ Idle.at = "idle" /\ Idle.mine["zernio"] = Nothing
  BY DEF Idle, Empty, Services
<1> QED
  BY <1>1, <1>2 DEF Draft, Restoring, Owned, Nothing

(* A step that leaves the object alone and asks nothing for the form.      *)
LEMMA SameDraft ==
  ASSUME NEW s \in Session, NEW place, NEW q, NEW s1,
         Draft(s), s.at \notin {"ask_postzen", "ask_zernio"},
         s1.at = place, s1.mine = s.mine, s1.prog = s.prog, s1.final = s.final,
         place \notin {"ask_postzen", "ask_zernio"}, Restoring(s) => place \in Applying
  PROVE  Draft(s1)
  BY DEF Draft, Restoring

(* An object that holds a pair of its own.                                 *)
LEMMA OwnedDraft ==
  ASSUME NEW s, Owned(s.mine["zernio"]), s.prog # "restore" \/ ~s.final
  PROVE  Draft(s)
  BY DEF Draft, Restoring

LEMMA BeginMatches ==
  ASSUME TypeOK, MatchInv, NEW t \in Threads, NEW prog \in Programs, Begin(t, prog)
  PROVE  MatchInv'
<1> DEFINE m == Filled(row)
<1>1. PICK place : thread' = [thread EXCEPT ![t] =
         [at |-> place, prog |-> prog, loaded |-> row, mine |-> m,
          asked |-> Nothing, client |-> "zernio", final |-> FALSE]]
  BY DEF Begin
<1>2. thread'[t].mine = m /\ thread'[t].final = FALSE
  BY <1>1 DEF TypeOK
<1>3. ~doubt' => ~doubt /\ (m["zernio"].acc = row["zernio"].acc \/ m["zernio"].acc = m["zernio"].key)
  BY DEF Begin
<1>4. m["zernio"] = InEffect(row, "zernio")
  BY DEF Filled, Services
<1>5. ~doubt' => Owned(m["zernio"])
  BY <1>3, <1>4 DEF MatchInv, Owned, InEffect, Or
<1>6. ~doubt' => Draft(thread'[t])
  BY <1>2, <1>5, OwnedDraft
<1>7. row' = row /\ \A u \in Threads \ {t} : thread'[u] = thread[u]
  BY DEF Begin, TypeOK
<1> QED
  BY <1>3, <1>6, <1>7, MatchByMover DEF MatchInv

LEMMA SaveMatches ==
  ASSUME TypeOK, MatchInv, NEW t \in Threads, Save(t)
  PROVE  MatchInv'
<1>1. thread[t] \in Session /\ \A u \in Threads \ {t} : thread'[u] = thread[u]
  BY OthersWait, HeldType DEF Step
<1>2. ~doubt => Draft(thread[t]) /\ Owned(row["zernio"])
  BY DEF MatchInv
<1>3. thread[t].at = "commit"
  BY DEF Save, At
<1>4. CASE Changed(t) \/ thread[t].final
  <2>1. PICK m \in Row : m = Merged(t)
    BY MergedType
  <2>2. /\ row' = m
        /\ thread' = [thread EXCEPT ![t].at = "keys", ![t].loaded = m, ![t].mine = m]
        /\ doubt' = (doubt \/ row # thread[t].loaded)
    BY <1>4, <2>1 DEF Save
  <2>3. ~doubt' => m["zernio"] = thread[t].mine["zernio"]
    <3>1. PICK x \in Pair, y \in Pair : x = thread[t].mine["zernio"] /\ y = row["zernio"]
      BY HeldType DEF TypeOK, Row, Services
    <3>2. ~doubt' => m["zernio"] = [key |-> x.key, acc |-> x.acc]
      <4>1. m["zernio"] =
              [key |-> IF x.key # thread[t].loaded["zernio"].key THEN x.key ELSE y.key,
               acc |-> IF x.acc # thread[t].loaded["zernio"].acc THEN x.acc ELSE y.acc]
        BY <2>1, <3>1 DEF Merged, Services
      <4> QED
        BY <2>2, <3>1, <4>1
    <3> QED
      BY <3>1, <3>2 DEF Pair
  <2>4. ~doubt' => Owned(m["zernio"])
    BY <1>2, <1>3, <2>2, <2>3 DEF Draft, Applying, Assigning
  <2>5. thread'[t].mine = m /\ thread'[t].prog = thread[t].prog /\ thread'[t].final = thread[t].final
    BY <1>1, <2>2 DEF TypeOK, Session
  <2>6. ~doubt' => Draft(thread'[t])
    BY <1>2, <1>3, <2>2, <2>4, <2>5, OwnedDraft DEF Draft, Restoring, Applying, Assigning
  <2> QED
    BY <1>1, <2>2, <2>4, <2>6, MatchByMover
<1>5. CASE ~(Changed(t) \/ thread[t].final)
  <2>1. thread' = [thread EXCEPT ![t].at = "keys"] /\ UNCHANGED <<row, doubt>>
    BY <1>5 DEF Save, Go
  <2>2. /\ thread'[t].at = "keys" /\ thread'[t].mine = thread[t].mine
        /\ thread'[t].prog = thread[t].prog /\ thread'[t].final = thread[t].final
    BY <1>1, <2>1 DEF TypeOK, Session
  <2>3. ~doubt => Draft(thread'[t])
    BY <1>1, <1>2, <1>3, <2>2, SameDraft DEF Applying, Assigning
  <2> QED
    BY <1>1, <1>2, <2>1, <2>3, MatchByMover
<1> QED
  BY <1>4, <1>5

(* The steps of apply_credentials_to_services, and the ends of a thread.   *)
LEMMA ApplyMatches ==
  ASSUME TypeOK, MatchInv, NEW t \in Threads,
         \/ ApplyKeys(t) \/ ApplyIds(t) \/ ApplyPostzenKey(t) \/ ApplyPostzenId(t)
         \/ Ensure(t) \/ Login(t) \/ DiscoverPostzen(t)
         \/ Return(t) \/ Close(t) \/ Used(t)
  PROVE  MatchInv'
<1> USE DEF History
<1>1. thread[t] \in Session /\ \A u \in Threads \ {t} : thread'[u] = thread[u]
  BY OthersWait, HeldType DEF Step
<1>2. ~doubt => Draft(thread[t]) /\ Owned(row["zernio"])
  BY DEF MatchInv
<1>3. row' = row /\ doubt' = doubt
  BY DEF ApplyKeys, ApplyIds, ApplyPostzenKey, Assign, ApplyPostzenId, Ensure, Login,
         DiscoverPostzen, Return, Close, Used
<1>4. ASSUME thread[t].at \in Applying, NEW place \in Applying, NEW q,
             \/ thread' = [thread EXCEPT ![t].at = place]
             \/ thread' = [thread EXCEPT ![t].at = place, ![t].asked = q]
      PROVE  MatchInv'
  <2>1. /\ thread'[t].at = place /\ thread'[t].mine = thread[t].mine
        /\ thread'[t].prog = thread[t].prog /\ thread'[t].final = thread[t].final
    BY <1>1, <1>4 DEF TypeOK, Session
  <2>2. ~doubt => Draft(thread'[t])
    BY <1>1, <1>2, <1>4, <2>1, SameDraft DEF Applying, Assigning
  <2> QED
    BY <1>1, <1>2, <1>3, <2>2, MatchByMover
<1>5. ASSUME Stop(t) PROVE MatchInv'
  BY <1>1, <1>2, <1>3, <1>5, StopDraft, MatchByMover
<1>6. CASE ApplyKeys(t) \/ ApplyIds(t) \/ ApplyPostzenKey(t)
  <2>1. PICK place \in Assigning : thread' = [thread EXCEPT ![t].at = place]
    BY <1>6 DEF ApplyKeys, ApplyIds, ApplyPostzenKey, Assign, Go, Assigning
  <2>2. thread[t].at \in Assigning
    BY <1>6 DEF ApplyKeys, ApplyIds, ApplyPostzenKey, Assign, At, Assigning
  <2> QED
    BY <1>4, <2>1, <2>2 DEF Applying
<1>8. CASE ApplyPostzenId(t)
  <2>1. PICK q : \E place \in {"ensure", "postzen", "return"} :
          thread' = [thread EXCEPT ![t].at = place, ![t].asked = q]
    BY <1>8 DEF ApplyPostzenId, AfterIds
  <2> QED
    BY <1>4, <1>8, <2>1 DEF ApplyPostzenId, At, Applying, Assigning
<1>9. CASE Ensure(t)
  <2>1. PICK q : \E place \in {"login"} :
          thread' = [thread EXCEPT ![t].at = place, ![t].asked = q]
    BY <1>9 DEF Ensure
  <2> QED
    BY <1>4, <1>9, <2>1 DEF Ensure, At, Applying
<1>a. CASE Login(t)
  <2>1. PICK q : \E place \in {"postzen", "return"} :
          thread' = [thread EXCEPT ![t].at = place, ![t].asked = q]
    BY <1>a DEF Login
  <2> QED
    BY <1>4, <1>a, <2>1 DEF Login, At, Applying
<1>b. CASE DiscoverPostzen(t)
  <2>1. PICK q : \E place \in {"return"} :
          thread' = [thread EXCEPT ![t].at = place, ![t].asked = q]
    BY <1>b DEF DiscoverPostzen
  <2> QED
    BY <1>4, <1>b, <2>1 DEF DiscoverPostzen, At, Applying
<1>c. CASE Return(t) \/ Close(t) \/ Used(t)
  BY <1>5, <1>c DEF Return, Close, Used
<1> QED
  BY <1>6, <1>8, <1>9, <1>a, <1>b, <1>c

LEMMA UseMatches ==
  ASSUME TypeOK, MatchInv, NEW t \in Threads, NEW c \in Clients, Use(t, c)
  PROVE  MatchInv'
<1>1. PICK s : s = [Idle EXCEPT !.at = "use", !.asked = live[c], !.client = c]
  OBVIOUS
<1>2. s.prog = "read" /\ s.at = "use" /\ s.mine["zernio"] = Nothing
  BY <1>1 DEF Idle, Empty, Services
<1>3. Draft(s)
  BY <1>2 DEF Draft, Restoring, Owned, Nothing
<1>4. thread' = [thread EXCEPT ![t] = s] /\ row' = row /\ doubt' = doubt
  BY <1>1 DEF Use
<1>5. Draft(thread'[t]) /\ \A u \in Threads \ {t} : thread'[u] = thread[u]
  BY <1>3, <1>4 DEF TypeOK
<1> QED
  BY <1>4, <1>5, MatchByMover DEF MatchInv

(* An edit that is stored without asking Zernio stores a pair of its own.  *)
LEMMA EditedOwned ==
  ASSUME NEW old \in Row, NEW form \in Form, NEW m, m = Edited(old, form),
         Owned(old["zernio"]), ~AskedZernio(old, m),
         form["zernio"].acc \notin Keys \/ m["zernio"].key \notin {None, old["zernio"].key}
  PROVE  Owned(m["zernio"])
<1>1. PICK o \in Pair : o = old["zernio"]
  BY DEF Row, Services
<1>2. PICK f \in [key : Id \cup {Blank}, acc : Id \cup {Blank}] : f = form["zernio"]
  BY DEF Form, Services
<1>3. PICK key : key = Typed(f.key, o.key)
  OBVIOUS
<1>4. m["zernio"] = [key |-> key, acc |-> Typed(f.acc, IF key # o.key THEN None ELSE o.acc)]
  BY <1>1, <1>2, <1>3 DEF Edited, Services
<1>5. m["zernio"].key = key /\ m["zernio"].key \in {None, o.key}
  BY <1>1, <1>4 DEF AskedZernio
<1>6. f.acc \in {None, Blank}
  BY <1>1, <1>2, <1>5 DEF Id
<1>7. CASE f.acc = Blank
  BY <1>4, <1>7, CredentialsAssumption DEF Typed, Owned
<1>8. CASE f.acc = None
  BY <1>1, <1>4, <1>8 DEF Typed, Owned
<1> QED
  BY <1>6, <1>7, <1>8

LEMMA UpdateMatches ==
  ASSUME TypeOK, MatchInv, NEW t \in Threads, UpdateSettings(t)
  PROVE  MatchInv'
<1>1. thread[t] \in Session /\ \A u \in Threads \ {t} : thread'[u] = thread[u]
  BY OthersWait, HeldType DEF Step
<1>2. ~doubt => Draft(thread[t]) /\ Owned(row["zernio"])
  BY DEF MatchInv
<1>3. thread[t].at = "return" /\ thread[t].prog = "save" /\ row' = row
  BY DEF UpdateSettings, At
<1>4. PICK old \in Row : old = thread[t].mine
  BY HeldType
<1>5. PICK form \in Form :
        LET m == Edited(thread[t].mine, form) IN
        /\ thread' = [thread EXCEPT ![t].mine = m, ![t].final = TRUE,
                        ![t].at = IF MissingPostzen(m) THEN "ask_postzen"
                                  ELSE IF AskedZernio(thread[t].mine, m) THEN "ask_zernio"
                                  ELSE "commit",
                        ![t].asked = IF MissingPostzen(m) THEN thread[t].mine["zernio"]
                                     ELSE Nothing]
        /\ doubt' = (doubt \/ (/\ form["zernio"].acc \in Keys
                               /\ m["zernio"].key \in {None, thread[t].mine["zernio"].key}))
  BY DEF UpdateSettings
<1>6. PICK m \in Row : m = Edited(old, form)
  BY EditedType
<1>7. PICK place : place = IF MissingPostzen(m) THEN "ask_postzen"
                           ELSE IF AskedZernio(old, m) THEN "ask_zernio" ELSE "commit"
  OBVIOUS
<1>8. PICK q \in Pair : q = IF MissingPostzen(m) THEN old["zernio"] ELSE Nothing
  BY EmptyTypes DEF Row, Services
<1>9. thread' = [thread EXCEPT ![t].mine = m, ![t].final = TRUE, ![t].at = place, ![t].asked = q]
  BY <1>4, <1>5, <1>6, <1>7, <1>8
<1>a. /\ thread'[t].at = place /\ thread'[t].mine = m /\ thread'[t].asked = q
      /\ thread'[t].prog = "save"
  BY <1>1, <1>3, <1>9 DEF TypeOK, Session
<1>b. ~doubt' => ~doubt /\ (AskedZernio(old, m) \/ Owned(m["zernio"]))
  <2>1. doubt' = (doubt \/ (/\ form["zernio"].acc \in Keys
                            /\ m["zernio"].key \in {None, old["zernio"].key}))
    BY <1>4, <1>5, <1>6
  <2>2. ~doubt => Owned(old["zernio"])
    BY <1>2, <1>3, <1>4 DEF Draft, Restoring
  <2> QED
    BY <1>6, <2>1, <2>2, EditedOwned
<1>c. ASSUME MissingPostzen(m)
      PROVE  AskedZernio(old, m) = AskedZernio([m EXCEPT !["zernio"] = q], m)
  <2>1. [m EXCEPT !["zernio"] = q]["zernio"] = old["zernio"]
    BY <1>8, <1>c DEF Row, Services
  <2> QED
    BY <2>1 DEF AskedZernio
<1>d. ~doubt' => Draft(thread'[t])
  <2>1. CASE MissingPostzen(m)
    BY <1>7, <1>a, <1>b, <1>c, <2>1 DEF Draft, Restoring
  <2>2. CASE ~MissingPostzen(m) /\ AskedZernio(old, m)
    BY <1>7, <1>a, <2>2 DEF Draft, Restoring
  <2>3. CASE ~MissingPostzen(m) /\ ~AskedZernio(old, m)
    BY <1>7, <1>a, <1>b, <2>3 DEF Draft, Restoring
  <2> QED
    BY <2>1, <2>2, <2>3
<1> QED
  BY <1>1, <1>2, <1>3, <1>b, <1>d, MatchByMover

(* The look-ups of get_bot_settings and of the form.                       *)
LEMMA AskMatches ==
  ASSUME TypeOK, MatchInv, NEW t \in Threads,
         LookUp(t) \/ AskPostzen(t) \/ AskZernio(t)
  PROVE  MatchInv'
<1> USE DEF History
<1>1. thread[t] \in Session /\ \A u \in Threads \ {t} : thread'[u] = thread[u]
  BY OthersWait, HeldType DEF Step
<1>2. ~doubt => Draft(thread[t]) /\ Owned(row["zernio"])
  BY DEF MatchInv
<1>3. PICK old \in Row : old = thread[t].mine
  BY HeldType
<1>4. old["zernio"] \in Pair /\ old["postzen"] \in Pair
  BY DEF Row, Services
<1>5. ASSUME NEW place, NEW m, GoWith(t, place, m)
      PROVE  /\ thread'[t].at = place /\ thread'[t].mine = m /\ thread'[t].asked = thread[t].asked
             /\ thread'[t].prog = thread[t].prog /\ thread'[t].final = thread[t].final
  BY <1>1, <1>5 DEF GoWith, TypeOK, Session
<1>6. ~doubt => ~Restoring(thread[t])
  BY <1>2 DEF Draft, Applying, Assigning, LookUp, AskPostzen, AskZernio, At
<1>7. CASE LookUp(t)
  <2>1. PICK a \in Answer(old["zernio"].key) :
          GoWith(t, "commit", [old EXCEPT !["zernio"].acc = a])
    BY <1>3, <1>7 DEF LookUp
  <2>2. Owned([old EXCEPT !["zernio"].acc = a]["zernio"])
    BY <1>4, AnswerType DEF Owned, Row, Services, Pair
  <2>3. ~doubt => Draft(thread'[t])
    BY <1>5, <1>6, <2>1, <2>2, OwnedDraft DEF Restoring
  <2>4. row' = row /\ doubt' = doubt
    BY <1>7 DEF LookUp
  <2> QED
    BY <1>1, <1>2, <2>3, <2>4, MatchByMover
<1>8. CASE AskZernio(t)
  <2>1. PICK a \in Answer(old["zernio"].key) :
          /\ GoWith(t, "commit", [old EXCEPT !["zernio"].acc = Or(a, @)])
          /\ doubt' = (doubt \/ (a = None /\ old["zernio"].acc # None))
    BY <1>3, <1>8 DEF AskZernio
  <2>2. a # None \/ old["zernio"].acc = None => Owned([old EXCEPT !["zernio"].acc = Or(a, @)]["zernio"])
    BY <1>4, AnswerType DEF Owned, Or, Row, Services, Pair
  <2>3. ~doubt' => Draft(thread'[t])
    BY <1>5, <1>6, <2>1, <2>2, OwnedDraft DEF Restoring
  <2>4. row' = row
    BY <1>8 DEF AskZernio
  <2> QED
    BY <1>1, <1>2, <2>1, <2>3, <2>4, MatchByMover
<1>9. CASE AskPostzen(t)
  <2> DEFINE before == [old EXCEPT !["zernio"] = thread[t].asked]
  <2>1. PICK a : thread' = [thread EXCEPT ![t].mine["postzen"].acc = a, ![t].asked = Nothing,
                             ![t].at = IF AskedZernio(before, old) THEN "ask_zernio" ELSE "commit"]
    BY <1>3, <1>9 DEF AskPostzen
  <2>2. PICK m : m = [old EXCEPT !["postzen"].acc = a]
    OBVIOUS
  <2>3. m["zernio"] = old["zernio"]
    BY <2>2 DEF Row, Services
  <2>a. PICK place : place = IF AskedZernio(before, old) THEN "ask_zernio" ELSE "commit"
    OBVIOUS
  <2>b. PICK q : q = Nothing
    OBVIOUS
  <2>c. thread' = [thread EXCEPT ![t].mine = m, ![t].asked = q, ![t].at = place]
    BY <1>3, <2>1, <2>2, <2>a, <2>b
  <2>d. /\ thread'[t].at = place /\ thread'[t].mine = m
        /\ thread'[t].prog = thread[t].prog /\ thread'[t].final = thread[t].final
    BY <1>1, <2>c DEF TypeOK, Session
  <2>4. ~doubt => Draft(thread'[t])
    <3>1. CASE AskedZernio(before, old)
      BY <1>6, <2>a, <2>d, <3>1 DEF Draft, Restoring
    <3>2. CASE ~AskedZernio(before, old)
      <4>1. ~doubt => Owned(old["zernio"])
        BY <1>2, <1>3, <1>9, <3>2 DEF Draft, AskPostzen, At
      <4> QED
        BY <1>6, <2>3, <2>d, <4>1, OwnedDraft DEF Restoring
    <3> QED
      BY <3>1, <3>2
  <2>5. row' = row /\ doubt' = doubt
    BY <1>9 DEF AskPostzen
  <2> QED
    BY <1>1, <1>2, <2>4, <2>5, MatchByMover
<1> QED
  BY <1>7, <1>8, <1>9

(* The other requests of the panel.                                        *)
LEMMA FoundMatches ==
  ASSUME TypeOK, MatchInv, NEW t \in Threads,
         \/ Refuse(t) \/ AutoDiscover(t) \/ TestConnection(t)
         \/ ImportSettings(t) \/ ImportRest(t)
  PROVE  MatchInv'
<1>1. thread[t] \in Session /\ \A u \in Threads \ {t} : thread'[u] = thread[u]
  BY OthersWait, HeldType DEF Step
<1>2. ~doubt => Draft(thread[t]) /\ Owned(row["zernio"])
  BY DEF MatchInv
<1>3. PICK old \in Row : old = thread[t].mine
  BY HeldType
<1>4. old["zernio"] \in Pair /\ old["postzen"] \in Pair
  BY DEF Row, Services
<1>5. thread[t].at = "return"
  BY DEF Refuse, AutoDiscover, TestConnection, ImportSettings, ImportRest, At
<1>6. ASSUME NEW place, NEW m, thread' = [thread EXCEPT ![t].mine = m, ![t].at = place, ![t].final = TRUE]
      PROVE  /\ thread'[t].at = place /\ thread'[t].mine = m /\ thread'[t].final = TRUE
             /\ thread'[t].prog = thread[t].prog
  BY <1>1, <1>6 DEF TypeOK, Session
<1>7. ASSUME Stop(t), ~doubt' => ~doubt /\ Owned(row'["zernio"]) PROVE MatchInv'
  BY <1>1, <1>7, StopDraft, MatchByMover
<1>8. CASE Refuse(t)
  BY <1>2, <1>7, <1>8 DEF Refuse
<1>9. CASE AutoDiscover(t)
  <2>0. PICK s \in Services : \E a :
          IF a = None THEN Stop(t)
          ELSE thread' = [thread EXCEPT ![t].mine[s] = [key |-> a, acc |-> a],
                                        ![t].at = "commit", ![t].final = TRUE]
    BY <1>9 DEF AutoDiscover
  <2>1. PICK a :
          IF a = None THEN Stop(t)
          ELSE thread' = [thread EXCEPT ![t].mine[s] = [key |-> a, acc |-> a],
                                        ![t].at = "commit", ![t].final = TRUE]
    BY <2>0
  <2>2. row' = row /\ doubt' = doubt /\ thread[t].prog = "discover"
    BY <1>9 DEF AutoDiscover
  <2>3. CASE a = None
    BY <1>2, <1>7, <2>1, <2>2, <2>3
  <2>4. CASE a # None
    <3>1. PICK m : m = [old EXCEPT ![s] = [key |-> a, acc |-> a]]
      OBVIOUS
    <3>2. thread' = [thread EXCEPT ![t].mine = m, ![t].at = "commit", ![t].final = TRUE]
      BY <1>3, <2>1, <2>4, <3>1
    <3>3. ~doubt => Owned(old["zernio"])
      BY <1>2, <1>3, <1>5, <2>2 DEF Draft, Restoring
    <3>4. ~doubt => Owned(m["zernio"])
      BY <1>4, <3>1, <3>3 DEF Owned, Row, Services
    <3>5. ~doubt => Draft(thread'[t])
      BY <1>6, <2>2, <3>2, <3>4, OwnedDraft
    <3> QED
      BY <1>1, <1>2, <2>2, <3>5, MatchByMover
  <2> QED
    BY <2>3, <2>4
<1>a. CASE TestConnection(t)
  <2>0. thread[t].prog = "test"
    BY <1>a DEF TestConnection
  <2>1. CASE \E a \in Answer(old["zernio"].key) \ {None} :
               /\ thread' = [thread EXCEPT ![t].mine["zernio"].acc = a,
                                           ![t].at = "commit", ![t].final = TRUE]
               /\ UNCHANGED <<row, disturbed, doubt>>
    <3>1. PICK a \in Answer(old["zernio"].key) \ {None} :
            /\ thread' = [thread EXCEPT ![t].mine["zernio"].acc = a,
                                        ![t].at = "commit", ![t].final = TRUE]
            /\ UNCHANGED <<row, disturbed, doubt>>
      BY <2>1
    <3>2. PICK m : m = [old EXCEPT !["zernio"].acc = a]
      OBVIOUS
    <3>3. thread' = [thread EXCEPT ![t].mine = m, ![t].at = "commit", ![t].final = TRUE]
      BY <1>3, <3>1, <3>2
    <3>4. Owned(m["zernio"])
      BY <1>4, <3>2, AnswerType DEF Owned, Row, Services, Pair
    <3>5. Draft(thread'[t])
      BY <1>6, <2>0, <3>3, <3>4, OwnedDraft
    <3> QED
      BY <1>1, <1>2, <3>1, <3>5, MatchByMover
  <2>2. CASE Stop(t) /\ UNCHANGED <<row, doubt>>
    BY <1>2, <1>7, <2>2
  <2>3. CASE /\ row' = IF old["zernio"].acc # None
                         THEN [row EXCEPT !["zernio"].acc = None] ELSE row
             /\ doubt' = (doubt \/ row # thread[t].loaded)
             /\ Stop(t)
    <3>1. PICK r : r = [row EXCEPT !["zernio"].acc = None]
      OBVIOUS
    <3>2. Owned(r["zernio"])
      BY <3>1 DEF Owned, TypeOK, Row, Services, Pair
    <3>3. ~doubt' => ~doubt /\ Owned(row'["zernio"])
      BY <1>2, <2>3, <3>1, <3>2
    <3> QED
      BY <1>7, <2>3, <3>3
  <2> QED
    BY <1>3, <1>a, <2>1, <2>2, <2>3 DEF TestConnection
<1>b. CASE ImportSettings(t)
  <2>1. PICK k, a : thread' = [thread EXCEPT ![t].mine["zernio"] = [key |-> Or(k, @.key), acc |-> a],
                                             ![t].at = "keys", ![t].final = TRUE]
    BY <1>b DEF ImportSettings
  <2>2. PICK m : m = [old EXCEPT !["zernio"] = [key |-> Or(k, @.key), acc |-> a]]
    OBVIOUS
  <2>3. thread' = [thread EXCEPT ![t].mine = m, ![t].at = "keys", ![t].final = TRUE]
    BY <1>3, <2>1, <2>2
  <2>4. row' = row /\ doubt' = doubt /\ thread[t].prog = "restore"
    BY <1>b DEF ImportSettings, History
  <2>5. Draft(thread'[t])
    BY <1>6, <2>3, <2>4 DEF Draft, Restoring, Applying, Assigning
  <2> QED
    BY <1>1, <1>2, <2>4, <2>5, MatchByMover
<1>c. CASE ImportRest(t)
  <2>1. CASE doubt' = TRUE
    BY <2>1 DEF MatchInv
  <2>2. CASE Stop(t) /\ UNCHANGED <<row, doubt>>
    BY <1>2, <1>7, <2>2
  <2> QED
    BY <1>c, <2>1, <2>2 DEF ImportRest
<1> QED
  BY <1>8, <1>9, <1>a, <1>b, <1>c

LEMMA MatchStep == TypeOK /\ MatchInv /\ [Next]_vars => MatchInv'
<1> SUFFICES ASSUME TypeOK, MatchInv, [Next]_vars PROVE MatchInv'
  OBVIOUS
<1>1. ASSUME NEW t \in Threads, Step(t) PROVE MatchInv'
  BY <1>1, SaveMatches, ApplyMatches, UpdateMatches, AskMatches, FoundMatches DEF Step
<1>2. CASE CoolDown \/ UNCHANGED vars
  BY <1>2 DEF CoolDown, vars, History, MatchInv
<1>3. CASE Restart
  <2>1. Draft(Idle)
    BY DEF Draft, Restoring, Owned, Idle, Empty, Nothing, Services
  <2> QED
    BY <1>3, <2>1 DEF Restart, MatchInv
<1> QED
  BY <1>1, <1>2, <1>3, BeginMatches, UseMatches DEF Next, Poll, Request, Threads, Programs

(* The saved key and the saved account belong together unless a look-up of *)
(* a save went unanswered beside an id of the form, two saves crossed, an  *)
(* id was typed for a key that stays or is emptied, or it came with a      *)
(* backup or the .env file, for any number of requests.                    *)
THEOREM AnsweredSavesMatch == Spec => []AnsweredSaveMatches
<1>1. Init => MatchInv
  <2>1. Draft(Idle) /\ Owned(Empty["zernio"])
    BY DEF Draft, Restoring, Owned, Idle, Empty, Nothing, Services
  <2> QED
    BY <2>1 DEF Init, MatchInv
<1>2. TypeOK /\ MatchInv /\ [Next]_vars => MatchInv'
  BY MatchStep
<1>3. MatchInv => AnsweredSaveMatches
  BY DEF MatchInv, AnsweredSaveMatches, Owned
<1> QED
  BY <1>1, <1>2, <1>3, TypeCorrect, PTL DEF Spec

-----------------------------------------------------------------------------
(* A client holds the pair of row r.                                       *)
Holds(r, c, s) ==
  LET p == InEffect(r, s) IN
  /\ live[c].key = p.key
  /\ live[c].acc \in IF p.acc # None THEN {p.acc} ELSE {None, p.key}

AllHold(r) == Holds(r, "zernio", "zernio") /\ Holds(r, "instagram", "zernio")
                                           /\ Holds(r, "postzen", "postzen")

(* What the assignments before a place have set.                           *)
Assigned(place, z, p) ==
  /\ place \in Assigning \ {"keys"} => live["zernio"].key = z.key
  /\ place \in Assigning \ {"keys", "ig_key"} => live["instagram"].key = z.key
  /\ place \in {"ig_id", "pzn_key", "pzn_id"} => live["zernio"].acc = z.acc
  /\ place \in {"pzn_key", "pzn_id"} => live["instagram"].acc = z.acc
  /\ place = "pzn_id" => live["postzen"].key = p.key

(* How far a thread that nobody disturbed has come.                        *)
Progress(s) ==
  /\ s.at # "done" => s.loaded = row
  /\ s.at \in Applying /\ ~Restoring(s) => s.mine = row
  /\ s.at \in Assigning => Assigned(s.at, InEffect(s.mine, "zernio"), InEffect(s.mine, "postzen"))
  /\ s.at \in {"ensure", "login", "postzen", "return"} => AllHold(s.mine)
  /\ s.at = "ensure" => s.asked = live["zernio"] /\ s.asked.acc = None
  /\ s.at = "login" => s.asked = live["instagram"]
  /\ s.at = "postzen" => s.asked = live["postzen"] /\ InEffect(s.mine, "postzen").acc = None
  /\ s.at = "done" => AllHold(row)

Alone(t) == t \notin disturbed /\ thread[t].at # "idle"

AloneInv == \A t \in Threads : Alone(t) => Busy = {t} /\ Progress(thread[t])

LEMMA StopsOrSame ==
  ASSUME TypeOK, NEW t \in Threads, Step(t), thread'[t].at # "idle"
  PROVE  disturbed' = disturbed
<1> USE DEF Stop, Idle, TypeOK, History
<1>1. CASE LookUp(t) \/ Save(t) \/ ApplyKeys(t) \/ ApplyIds(t) \/ ApplyPostzenKey(t)
  BY <1>1 DEF LookUp, Save, ApplyKeys, ApplyIds, ApplyPostzenKey, Assign
<1>2. CASE ApplyPostzenId(t) \/ Ensure(t) \/ Login(t) \/ DiscoverPostzen(t)
  BY <1>2 DEF ApplyPostzenId, Ensure, Login, DiscoverPostzen
<1>3. CASE UpdateSettings(t) \/ AskPostzen(t) \/ AskZernio(t)
  BY <1>3 DEF UpdateSettings, AskPostzen, AskZernio
<1>4. ASSUME Stop(t) PROVE FALSE
  <2>1. thread'[t] = Idle
    BY <1>4
  <2> QED
    BY <2>1
<1>5. CASE AutoDiscover(t) \/ Refuse(t) \/ Return(t) \/ Close(t) \/ Used(t)
  BY <1>4, <1>5 DEF AutoDiscover, Refuse, Return, Close, Used
<1>6. CASE TestConnection(t)
  BY <1>4, <1>6 DEF TestConnection
<1>7. CASE ImportSettings(t)
  BY <1>7 DEF ImportSettings
<1>8. CASE ImportRest(t)
  BY <1>4, <1>8 DEF ImportRest
<1> QED
  BY <1>1, <1>2, <1>3, <1>5, <1>6, <1>7, <1>8 DEF Step

(* While a thread is alone every step is its own.                          *)
LEMMA AloneByMover ==
  ASSUME TypeOK, AloneInv, NEW t \in Threads, Step(t),
         Progress(thread[t]) /\ thread'[t].at # "idle" => Progress(thread[t])'
  PROVE  AloneInv'
<1> SUFFICES ASSUME NEW u \in Threads, Alone(u)' PROVE (Busy = {u} /\ Progress(thread[u]))'
  BY DEF AloneInv
<1>1. /\ thread[t].at # "idle"
      /\ \A v \in Threads \ {t} : thread'[v] = thread[v]
      /\ disturbed \ {t} \subseteq disturbed'
  BY OthersWait
<1>2. u = t
  <2> SUFFICES ASSUME u # t PROVE FALSE
    OBVIOUS
  <2>1. Alone(u)
    BY <1>1 DEF Alone
  <2>2. Busy = {u} /\ t \in Busy
    BY <1>1, <2>1 DEF AloneInv, Busy
  <2> QED
    BY <2>2
<1>3. Alone(t)
  BY <1>1, <1>2, StopsOrSame DEF Alone
<1>4. Busy' = {t}
  <2>1. \A v \in Threads : thread'[v].at # "idle" <=> v = t
    BY <1>1, <1>2, <1>3 DEF AloneInv, Busy, Alone
  <2> QED
    BY <2>1 DEF Busy
<1> QED
  BY <1>2, <1>3, <1>4 DEF AloneInv, Alone

(* Up to its commit a thread need only hold the row as it is.              *)
LEMMA EarlyProgress ==
  ASSUME NEW t, thread'[t].at \in {"lookup", "commit", "ask_postzen", "ask_zernio"},
         thread'[t].loaded = row'
  PROVE  Progress(thread[t])'
  BY DEF Progress, Applying, Assigning

LEMMA SaveProgress ==
  ASSUME TypeOK, NEW t \in Threads, Progress(thread[t]), Save(t)
  PROVE  Progress(thread[t])'
<1>1. thread[t] \in Session
  BY HeldType
<1>2. CASE Changed(t) \/ thread[t].final
  <2>1. PICK m : m = Merged(t)
    OBVIOUS
  <2>2. row' = m /\ thread' = [thread EXCEPT ![t].at = "keys", ![t].loaded = m, ![t].mine = m]
    BY <1>2, <2>1 DEF Save
  <2>3. thread'[t].at = "keys" /\ thread'[t].loaded = row' /\ thread'[t].mine = row'
    BY <1>1, <2>2 DEF TypeOK, Session
  <2> QED
    BY <2>3 DEF Progress, Assigned
<1>3. CASE ~(Changed(t) \/ thread[t].final)
  <2>1. thread' = [thread EXCEPT ![t].at = "keys"] /\ row' = row
    BY <1>3 DEF Save, Go
  <2>2. thread'[t].at = "keys" /\ thread'[t].loaded = thread[t].loaded /\ thread'[t].mine = thread[t].mine
    BY <1>1, <2>1 DEF TypeOK, Session
  <2>3. thread[t].mine = thread[t].loaded /\ thread[t].loaded = row
    BY <1>3 DEF Changed, Progress, Save, At
  <2> QED
    BY <2>1, <2>2, <2>3 DEF Progress, Assigned
<1> QED
  BY <1>2, <1>3

(* The assignments: what was set before stays set.                         *)
LEMMA AssignProgress ==
  ASSUME TypeOK, NEW t \in Threads, Progress(thread[t]),
         ApplyKeys(t) \/ ApplyIds(t) \/ ApplyPostzenKey(t)
  PROVE  Progress(thread[t])'
<1>1. PICK z \in Pair, p \in Pair :
        z = InEffect(thread[t].mine, "zernio") /\ p = InEffect(thread[t].mine, "postzen")
  BY HeldType
<1>2. thread[t] \in Session
  BY HeldType
<1>3. \/ Assign(t, "keys", "ig_key", WithKey("zernio", z))
      \/ Assign(t, "ig_key", "ids", WithKey("instagram", z))
      \/ Assign(t, "ids", "ig_id", WithId("zernio", z))
      \/ Assign(t, "ig_id", "pzn_key", WithId("instagram", z))
      \/ Assign(t, "pzn_key", "pzn_id", WithKey("postzen", p))
  BY <1>1 DEF ApplyKeys, ApplyIds, ApplyPostzenKey
<1>4. PICK next \in Assigning \ {"keys"} : thread' = [thread EXCEPT ![t].at = next]
  BY <1>3 DEF Assign, Go, Assigning
<1>5. /\ thread'[t].at = next /\ thread'[t].mine = thread[t].mine
      /\ thread'[t].loaded = thread[t].loaded
      /\ thread'[t].prog = thread[t].prog /\ thread'[t].final = thread[t].final
  BY <1>2, <1>4 DEF TypeOK, Session
<1>6. InEffect(thread'[t].mine, "zernio") = z /\ InEffect(thread'[t].mine, "postzen") = p
  BY <1>1, <1>5
<1>7. thread[t].at \in Assigning /\ Assigned(thread[t].at, z, p)
  <2>1. thread[t].at \in Assigning
    BY <1>3 DEF Assign, At, Assigning
  <2> QED
    BY <1>1, <2>1 DEF Progress
<1>8. Assigned(next, z, p)'
  <2> USE DEF Assign, Go, At, Assigned, Assigning, WithKey, WithId, TypeOK, Clients, Pair
  <2>1. CASE Assign(t, "keys", "ig_key", WithKey("zernio", z))
    <3>1. next = "ig_key" /\ live'["zernio"].key = z.key
      BY <1>5, <2>1, <1>2 DEF Session
    <3> QED
      BY <3>1
  <2>2. CASE Assign(t, "ig_key", "ids", WithKey("instagram", z))
    <3>1. next = "ids" /\ live'["zernio"].key = z.key /\ live'["instagram"].key = z.key
      BY <1>5, <1>7, <2>2, <1>2 DEF Session
    <3> QED
      BY <3>1
  <2>3. CASE Assign(t, "ids", "ig_id", WithId("zernio", z))
    <3>1. /\ next = "ig_id" /\ live'["zernio"].key = z.key /\ live'["instagram"].key = z.key
          /\ live'["zernio"].acc = z.acc
      BY <1>5, <1>7, <2>3, <1>2 DEF Session
    <3> QED
      BY <3>1
  <2>4. CASE Assign(t, "ig_id", "pzn_key", WithId("instagram", z))
    <3>1. /\ next = "pzn_key" /\ live'["zernio"].key = z.key /\ live'["instagram"].key = z.key
          /\ live'["zernio"].acc = z.acc /\ live'["instagram"].acc = z.acc
      BY <1>5, <1>7, <2>4, <1>2 DEF Session
    <3> QED
      BY <3>1
  <2>5. CASE Assign(t, "pzn_key", "pzn_id", WithKey("postzen", p))
    <3>1. /\ next = "pzn_id" /\ live'["zernio"].key = z.key /\ live'["instagram"].key = z.key
          /\ live'["zernio"].acc = z.acc /\ live'["instagram"].acc = z.acc
          /\ live'["postzen"].key = p.key
      BY <1>5, <1>7, <2>5, <1>2 DEF Session
    <3> QED
      BY <3>1
  <2> QED
    BY <1>3, <2>1, <2>2, <2>3, <2>4, <2>5
<1>9. Assigned(thread[t].at, InEffect(thread[t].mine, "zernio"), InEffect(thread[t].mine, "postzen"))'
  BY <1>5, <1>6, <1>8 DEF Assigned
<1>a. row' = row
  BY <1>3 DEF Assign
<1>b. next \notin {"ensure", "login", "postzen", "return", "done"}
  BY DEF Assigning
<1>c. thread[t].at \notin {"done", "ensure", "login", "postzen", "return"}
  BY <1>7 DEF Assigning
<1>d. thread'[t].loaded = row'
  BY <1>5, <1>a, <1>c DEF Progress
<1>e. ~Restoring(thread'[t]) => thread'[t].mine = row'
  BY <1>5, <1>7, <1>a DEF Progress, Applying, Restoring
<1> QED
  BY <1>5, <1>9, <1>b, <1>d, <1>e DEF Progress

LEMMA IdsProgress ==
  ASSUME TypeOK, NEW t \in Threads, Progress(thread[t]), ApplyPostzenId(t)
  PROVE  Progress(thread[t])'
<1>1. thread[t] \in Session
  BY HeldType
<1>2. PICK z \in Pair, p \in Pair :
        z = InEffect(thread[t].mine, "zernio") /\ p = InEffect(thread[t].mine, "postzen")
  BY HeldType
<1>3. thread[t].at = "pzn_id" /\ row' = row
  BY DEF ApplyPostzenId, At
<1>4. live' = [live EXCEPT !["postzen"].acc = p.acc]
  BY <1>2 DEF ApplyPostzenId, WithId
<1>d. Assigned("pzn_id", z, p)
  BY <1>2, <1>3 DEF Progress, Assigning
<1>5. live'["zernio"] = z /\ live'["instagram"] = z /\ live'["postzen"] = p
  BY <1>4, <1>d DEF Assigned, Assigning, TypeOK, Clients, Pair
<1>6. PICK place : place = AfterIds(z, p)
  OBVIOUS
<1>7. PICK q : q = Asking(place, live')
  OBVIOUS
<1>8. thread' = [thread EXCEPT ![t].at = place, ![t].asked = q]
  BY <1>2, <1>6, <1>7 DEF ApplyPostzenId
<1>9. /\ thread'[t].at = place /\ thread'[t].asked = q /\ thread'[t].mine = thread[t].mine
      /\ thread'[t].loaded = thread[t].loaded
      /\ thread'[t].prog = thread[t].prog /\ thread'[t].final = thread[t].final
  BY <1>1, <1>8 DEF TypeOK, Session
<1>a. /\ place \in {"ensure", "postzen", "return"}
      /\ place = "ensure" => z.acc = None /\ q = z
      /\ place = "postzen" => p.acc = None /\ q = p
  BY <1>5, <1>6, <1>7 DEF AfterIds, Asking
<1>b. AllHold(thread[t].mine)'
  <2>1. InEffect(thread'[t].mine, "zernio") = z /\ InEffect(thread'[t].mine, "postzen") = p
    BY <1>2, <1>9
  <2> QED
    BY <1>5, <2>1 DEF AllHold, Holds
<1>c. InEffect(thread'[t].mine, "postzen") = p
  BY <1>2, <1>9
<1> QED
  BY <1>3, <1>5, <1>9, <1>a, <1>b, <1>c DEF Progress, Applying, Assigning, Restoring

(* The answers of the look-ups: a client without an account gets that of   *)
(* its key.                                                                *)
LEMMA FoundHolds ==
  ASSUME TypeOK, NEW r, NEW c \in Clients, NEW s, Holds(r, c, s), InEffect(r, s).acc = None,
         NEW a \in Answer(live[c].key), live' = FoundAccount(c, a)
  PROVE  /\ live'[c].key = InEffect(r, s).key
         /\ live'[c].acc \in IF InEffect(r, s).acc # None THEN {InEffect(r, s).acc}
                             ELSE {None, InEffect(r, s).key}
         /\ \A d \in Clients \ {c} : live'[d] = live[d]
<1>1. PICK p : p = InEffect(r, s)
  OBVIOUS
<1>2. live[c].key = p.key /\ p.acc = None /\ live[c].acc \in {None, p.key}
  BY <1>1 DEF Holds
<1>3. a \in {None, live[c].key}
  BY DEF Answer
<1>4. CASE live' = live
  BY <1>1, <1>2, <1>4
<1>5. CASE live' = [live EXCEPT ![c].acc = a]
  <2>1. live'[c].key = live[c].key /\ live'[c].acc = a /\ \A d \in Clients \ {c} : live'[d] = live[d]
    BY <1>5 DEF TypeOK, Pair
  <2> QED
    BY <1>1, <1>2, <1>3, <2>1
<1> QED
  BY <1>4, <1>5 DEF FoundAccount

(* A step in the last part of apply, from one place to another.            *)
LEMMA ApplyProgress ==
  ASSUME TypeOK, NEW t \in Threads, Progress(thread[t]),
         thread[t].at \in {"ensure", "login", "postzen"}, row' = row,
         NEW place \in {"login", "postzen", "return"}, NEW q,
         thread' = [thread EXCEPT ![t].at = place, ![t].asked = q],
         place = "login" => q = live'["instagram"],
         NEW m, m = thread[t].mine, AllHold(m)',
         place = "postzen" => q = live'["postzen"] /\ InEffect(m, "postzen").acc = None
  PROVE  Progress(thread[t])'
<1>1. thread[t] \in Session
  BY HeldType
<1>2. /\ thread'[t].at = place /\ thread'[t].asked = q /\ thread'[t].mine = thread[t].mine
      /\ thread'[t].loaded = thread[t].loaded
      /\ thread'[t].prog = thread[t].prog /\ thread'[t].final = thread[t].final
  BY <1>1 DEF TypeOK, Session
<1>3. AllHold(thread[t].mine)'
  BY <1>2 DEF AllHold, Holds
<1>4. InEffect(thread'[t].mine, "postzen") = InEffect(m, "postzen")
  BY <1>2
<1> QED
  BY <1>2, <1>3, <1>4 DEF Progress, Applying, Assigning, Restoring

LEMMA EnsureProgress ==
  ASSUME TypeOK, NEW t \in Threads, Progress(thread[t]), Ensure(t)
  PROVE  Progress(thread[t])'
<1>1. PICK m : m = thread[t].mine
  OBVIOUS
<1>2. /\ thread[t].at = "ensure" /\ row' = row /\ AllHold(m)
      /\ thread[t].asked = live["zernio"] /\ live["zernio"].acc = None
  BY <1>1 DEF Ensure, At, Progress
<1>3. PICK a \in Answer(live["zernio"].key) : live' = FoundAccount("zernio", a)
  BY <1>2 DEF Ensure
<1>a. InEffect(m, "zernio").acc = None
  BY <1>2 DEF AllHold, Holds
<1>4. live'["instagram"] = live["instagram"] /\ live'["postzen"] = live["postzen"]
  BY <1>2, <1>3, <1>a, FoundHolds DEF AllHold, Clients
<1>5. AllHold(m)'
  <2>1. Holds(m, "zernio", "zernio")'
    BY <1>2, <1>3, <1>a, FoundHolds DEF AllHold, Holds, Clients
  <2> QED
    BY <1>2, <1>4, <2>1 DEF AllHold, Holds
<1>6. PICK q : q = live["instagram"]
  OBVIOUS
<1>7. thread' = [thread EXCEPT ![t].at = "login", ![t].asked = q]
  BY <1>6 DEF Ensure
<1> QED
  BY <1>1, <1>2, <1>4, <1>5, <1>6, <1>7, ApplyProgress

LEMMA LoginProgress ==
  ASSUME TypeOK, NEW t \in Threads, Progress(thread[t]), Login(t)
  PROVE  Progress(thread[t])'
<1>1. PICK m \in Row : m = thread[t].mine
  BY HeldType
<1>2. PICK p \in Pair : p = InEffect(m, "postzen")
  BY PairType DEF Services
<1>3. /\ thread[t].at = "login" /\ row' = row /\ AllHold(m)
      /\ thread[t].asked = live["instagram"]
  BY <1>1 DEF Login, At, Progress
<1>4. PICK a \in IF live["instagram"].acc = None THEN Answer(live["instagram"].key) ELSE {None} :
        live' = FoundAccount("instagram", a)
  BY <1>3 DEF Login
<1>5. live'["zernio"] = live["zernio"] /\ live'["postzen"] = live["postzen"]
  BY <1>4 DEF FoundAccount, TypeOK, Clients
<1>6. AllHold(m)'
  <2>1. CASE live["instagram"].acc # None
    <3>1. live' = live
      BY <1>4, <2>1 DEF FoundAccount
    <3> QED
      BY <1>3, <3>1 DEF AllHold, Holds
  <2>2. CASE live["instagram"].acc = None
    <3>1. a \in Answer(live["instagram"].key)
      BY <1>4, <2>2
    <3>2. InEffect(m, "zernio").acc = None
      BY <1>3, <2>2 DEF AllHold, Holds
    <3>3. Holds(m, "instagram", "zernio")'
      BY <1>3, <1>4, <3>1, <3>2, FoundHolds DEF AllHold, Holds, Clients
    <3> QED
      BY <1>3, <1>5, <3>3 DEF AllHold, Holds
  <2> QED
    BY <2>1, <2>2
<1>7. PICK place : place = IF p.key # None /\ p.acc = None THEN "postzen" ELSE "return"
  OBVIOUS
<1>8. PICK q : q = Asking(place, live)
  OBVIOUS
<1>9. thread' = [thread EXCEPT ![t].at = place, ![t].asked = q]
  BY <1>1, <1>2, <1>7, <1>8 DEF Login
<1>a. place = "postzen" => q = live'["postzen"] /\ InEffect(m, "postzen").acc = None
  BY <1>2, <1>5, <1>7, <1>8 DEF Asking
<1> QED
  BY <1>1, <1>3, <1>6, <1>7, <1>9, <1>a, ApplyProgress

LEMMA DiscoverProgress ==
  ASSUME TypeOK, NEW t \in Threads, Progress(thread[t]), DiscoverPostzen(t)
  PROVE  Progress(thread[t])'
<1>1. PICK m : m = thread[t].mine
  OBVIOUS
<1>2. /\ thread[t].at = "postzen" /\ row' = row /\ AllHold(m)
      /\ thread[t].asked = live["postzen"] /\ InEffect(m, "postzen").acc = None
  BY <1>1 DEF DiscoverPostzen, At, Progress
<1>3. PICK a \in Answer(live["postzen"].key) : live' = FoundAccount("postzen", a)
  BY <1>2 DEF DiscoverPostzen
<1>4. live'["zernio"] = live["zernio"] /\ live'["instagram"] = live["instagram"]
  BY <1>3 DEF FoundAccount, TypeOK, Clients
<1>5. AllHold(m)'
  <2>1. Holds(m, "postzen", "postzen")'
    BY <1>2, <1>3, FoundHolds DEF AllHold, Holds, Clients
  <2> QED
    BY <1>2, <1>4, <2>1 DEF AllHold, Holds
<1>6. PICK q : q = Nothing
  OBVIOUS
<1>7. thread' = [thread EXCEPT ![t].at = "return", ![t].asked = q]
  BY <1>6 DEF DiscoverPostzen
<1> QED
  BY <1>1, <1>2, <1>5, <1>7, ApplyProgress

(* The requests: up to their commit, and the restore that goes on.         *)
LEMMA RequestProgress ==
  ASSUME TypeOK, NEW t \in Threads, Progress(thread[t]), thread'[t].at # "idle",
         \/ LookUp(t) \/ UpdateSettings(t) \/ AskPostzen(t) \/ AskZernio(t)
         \/ AutoDiscover(t) \/ TestConnection(t) \/ ImportSettings(t)
  PROVE  Progress(thread[t])'
<1>1. thread[t] \in Session
  BY HeldType
<1>2. ASSUME Stop(t) PROVE FALSE
  <2>1. thread'[t] = Idle
    BY <1>2 DEF Stop, TypeOK
  <2> QED
    BY <2>1 DEF Idle
<1>3. thread[t].loaded = row
  BY DEF Progress, LookUp, UpdateSettings, AskPostzen, AskZernio, AutoDiscover, TestConnection,
         ImportSettings, At
<1>4. row' = row
  BY <1>2 DEF LookUp, UpdateSettings, AskPostzen, AskZernio, AutoDiscover, TestConnection,
              ImportSettings
<1>5. ASSUME NEW place \in {"commit", "ask_zernio"}, NEW m, GoWith(t, place, m)
      PROVE  Progress(thread[t])'
  <2>1. thread'[t].at = place /\ thread'[t].loaded = thread[t].loaded
    BY <1>1, <1>5 DEF GoWith, TypeOK, Session
  <2> QED
    BY <1>3, <1>4, <2>1, EarlyProgress
<1>6. ASSUME NEW m, thread' = [thread EXCEPT ![t].mine = m, ![t].at = "commit", ![t].final = TRUE]
      PROVE  Progress(thread[t])'
  <2>1. thread'[t].at = "commit" /\ thread'[t].loaded = thread[t].loaded
    BY <1>1, <1>6 DEF TypeOK, Session
  <2> QED
    BY <1>3, <1>4, <2>1, EarlyProgress
<1>7. CASE LookUp(t) \/ AskZernio(t)
  <2>1. PICK m : GoWith(t, "commit", m)
    BY <1>7 DEF LookUp, AskZernio
  <2> QED
    BY <1>5, <2>1
<1>c. CASE AskPostzen(t)
  <2> DEFINE before == [thread[t].mine EXCEPT !["zernio"] = thread[t].asked]
             place == IF AskedZernio(before, thread[t].mine) THEN "ask_zernio" ELSE "commit"
  <2>1. PICK a : thread' = [thread EXCEPT ![t].mine["postzen"].acc = a, ![t].asked = Nothing,
                                          ![t].at = place]
    BY <1>c DEF AskPostzen
  <2>3. place \in {"ask_zernio", "commit"}
    OBVIOUS
  <2> HIDE DEF place
  <2>2. thread'[t].at = place /\ thread'[t].loaded = thread[t].loaded
    BY <1>1, <2>1 DEF TypeOK, Session
  <2> QED
    BY <1>3, <1>4, <2>2, <2>3, EarlyProgress
<1>8. CASE UpdateSettings(t)
  <2>1. PICK m \in Row, q \in Pair : \E place \in {"ask_postzen", "ask_zernio", "commit"} :
          thread' = [thread EXCEPT ![t].mine = m, ![t].final = TRUE,
                                   ![t].at = place, ![t].asked = q]
    BY <1>8, EditMoves
  <2>2. thread'[t].at \in {"ask_postzen", "ask_zernio", "commit"}
        /\ thread'[t].loaded = thread[t].loaded
    BY <1>1, <2>1 DEF TypeOK, Session
  <2> QED
    BY <1>3, <1>4, <2>2, EarlyProgress
<1>9. CASE AutoDiscover(t)
  <2>1. PICK s, a : IF a = None THEN Stop(t)
             ELSE thread' = [thread EXCEPT ![t].mine[s] = [key |-> a, acc |-> a],
                                           ![t].at = "commit", ![t].final = TRUE]
    BY <1>9 DEF AutoDiscover
  <2>2. PICK m : m = [thread[t].mine EXCEPT ![s] = [key |-> a, acc |-> a]]
    OBVIOUS
  <2>3. thread' = [thread EXCEPT ![t].mine = m, ![t].at = "commit", ![t].final = TRUE]
    BY <1>2, <2>1, <2>2
  <2> QED
    BY <1>6, <2>3
<1>a. CASE TestConnection(t)
  <2>1. PICK a : thread' = [thread EXCEPT ![t].mine["zernio"].acc = a,
                                          ![t].at = "commit", ![t].final = TRUE]
    BY <1>2, <1>a DEF TestConnection
  <2>2. PICK m : m = [thread[t].mine EXCEPT !["zernio"].acc = a]
    OBVIOUS
  <2>3. thread' = [thread EXCEPT ![t].mine = m, ![t].at = "commit", ![t].final = TRUE]
    BY <2>1, <2>2
  <2> QED
    BY <1>6, <2>3
<1>b. CASE ImportSettings(t)
  <2>1. PICK k, a : thread' = [thread EXCEPT ![t].mine["zernio"] = [key |-> Or(k, @.key), acc |-> a],
                                             ![t].at = "keys", ![t].final = TRUE]
    BY <1>b DEF ImportSettings
  <2>2. PICK m : m = [thread[t].mine EXCEPT !["zernio"] = [key |-> Or(k, @.key), acc |-> a]]
    OBVIOUS
  <2>3. thread' = [thread EXCEPT ![t].mine = m, ![t].at = "keys", ![t].final = TRUE]
    BY <2>1, <2>2
  <2>4. /\ thread'[t].at = "keys" /\ thread'[t].loaded = thread[t].loaded
        /\ thread'[t].final /\ thread'[t].prog = thread[t].prog
    BY <1>1, <2>3 DEF TypeOK, Session
  <2>5. thread[t].prog = "restore"
    BY <1>b DEF ImportSettings
  <2> QED
    BY <1>3, <1>4, <2>4, <2>5 DEF Progress, Restoring, Assigned
<1> QED
  BY <1>7, <1>8, <1>9, <1>a, <1>b, <1>c

(* What is left of a thread: done, or nothing.                             *)
LEMMA EndProgress ==
  ASSUME TypeOK, NEW t \in Threads, Progress(thread[t]), thread'[t].at # "idle",
         Return(t) \/ Close(t) \/ Used(t) \/ Refuse(t) \/ ImportRest(t)
  PROVE  Progress(thread[t])'
<1>1. ASSUME Stop(t) PROVE FALSE
  <2>1. thread'[t] = Idle
    BY <1>1 DEF Stop, TypeOK
  <2> QED
    BY <2>1 DEF Idle
<1>2. CASE Return(t) \/ Close(t) \/ Used(t) \/ Refuse(t)
  BY <1>1, <1>2 DEF Return, Close, Used, Refuse
<1>3. CASE ImportRest(t)
  <2>1. /\ row' = Merged(t) /\ live' = live
        /\ thread' = [thread EXCEPT ![t] = [Idle EXCEPT !.at = "done"]]
    BY <1>1, <1>3 DEF ImportRest
  <2>2. PICK m \in Row : m = thread[t].mine
    BY HeldType
  <2>3. thread[t].at = "return"
    BY <1>3 DEF ImportRest, At
  <2>4. AllHold(m) /\ thread[t].loaded = row
    BY <2>2, <2>3 DEF Progress
  <2>5. Merged(t) = m
    <3>1. Merged(t) = [s \in Services |-> [key |-> m[s].key, acc |-> m[s].acc]]
      BY <2>2, <2>4 DEF Merged
    <3> QED
      BY <3>1 DEF Row, Pair
  <2>6. AllHold(row)'
    BY <2>1, <2>4, <2>5 DEF AllHold, Holds
  <2>7. thread'[t].at = "done"
    BY <2>1 DEF TypeOK, Idle
  <2> QED
    BY <2>6, <2>7 DEF Progress, Applying, Assigning
<1> QED
  BY <1>2, <1>3

LEMMA AloneStep == TypeOK /\ AloneInv /\ [Next]_vars => AloneInv'
<1> SUFFICES ASSUME TypeOK, AloneInv, [Next]_vars PROVE AloneInv'
  OBVIOUS
<1>1. ASSUME NEW t \in Threads, NEW prog \in Programs, Begin(t, prog) PROVE AloneInv'
  <2> SUFFICES ASSUME NEW u \in Threads, Alone(u)' PROVE (Busy = {u} /\ Progress(thread[u]))'
    BY DEF AloneInv
  <2>1. \A v \in Threads \ {t} : thread'[v] = thread[v]
    BY <1>1 DEF Begin, TypeOK
  <2>2. Busy = {}
    <3>1. CASE Busy # {}
      <4>1. disturbed' = disturbed \cup Busy \cup {t}
        BY <1>1, <3>1 DEF Begin
      <4>2. u \notin Busy /\ u # t
        BY <4>1 DEF Alone
      <4> QED
        BY <2>1, <4>2 DEF Alone, Busy
    <3> QED
      BY <3>1
  <2>3. u = t
    BY <2>1, <2>2 DEF Alone, Busy
  <2>4. thread'[t].at \in {"lookup", "commit"} /\ thread'[t].loaded = row /\ row' = row
    BY <1>1 DEF Begin, TypeOK
  <2>5. Busy' = {t}
    BY <2>1, <2>2, <2>4 DEF Busy
  <2> QED
    BY <2>3, <2>4, <2>5, EarlyProgress
<1>2. ASSUME NEW t \in Threads, Step(t) PROVE AloneInv'
  <2>1. ASSUME Progress(thread[t]), thread'[t].at # "idle" PROVE Progress(thread[t])'
    BY <1>2, <2>1, SaveProgress, AssignProgress, IdsProgress, EnsureProgress, LoginProgress,
       DiscoverProgress, RequestProgress, EndProgress DEF Step
  <2> QED
    BY <1>2, <2>1, AloneByMover
<1>5. ASSUME NEW t \in Threads, NEW c \in Clients, Use(t, c) PROVE AloneInv'
  <2> SUFFICES ASSUME NEW u \in Threads, Alone(u)' PROVE FALSE
    BY DEF AloneInv
  <2>1. u \notin Busy /\ u # t
    BY <1>5 DEF Use, Alone
  <2>2. thread'[u] = thread[u]
    BY <1>5, <2>1 DEF Use, TypeOK
  <2> QED
    BY <2>1, <2>2 DEF Alone, Busy
<1>3. CASE CoolDown \/ UNCHANGED vars
  <2>1. UNCHANGED <<row, live, thread, disturbed>>
    BY <1>3 DEF CoolDown, vars, History
  <2>2. Busy' = Busy /\ \A u \in Threads : Alone(u)' <=> Alone(u)
    BY <2>1 DEF Busy, Alone
  <2>3. ASSUME NEW u \in Threads, Progress(thread[u]) PROVE Progress(thread[u])'
    <3>1. PICK s : s = thread[u]
      OBVIOUS
    <3>2. thread'[u] = s
      BY <2>1, <3>1
    <3>3. AllHold(s.mine)' <=> AllHold(s.mine)
      BY <2>1 DEF AllHold, Holds
    <3>4. AllHold(row)' <=> AllHold(row)
      BY <2>1 DEF AllHold, Holds
    <3>5. AllHold(thread[u].mine)' <=> AllHold(s.mine)'
      BY <3>2 DEF AllHold, Holds
    <3>6. InEffect(thread'[u].mine, "zernio") = InEffect(s.mine, "zernio")
          /\ InEffect(thread'[u].mine, "postzen") = InEffect(s.mine, "postzen")
      BY <3>2
    <3> QED
      BY <2>1, <2>3, <3>1, <3>2, <3>3, <3>4, <3>5, <3>6 DEF Progress, Assigned
  <2> QED
    BY <2>2, <2>3 DEF AloneInv
<1>4. CASE Restart
  BY <1>4 DEF Restart, AloneInv, Alone, Idle
<1> QED
  BY <1>1, <1>2, <1>3, <1>4, <1>5 DEF Next, Poll, Request, Threads, Programs

(* A request that was alone from its read to its last assignment leaves    *)
(* every client with the saved credentials, whatever earlier threads, a    *)
(* restore rolled back or a cleared id left in them.                       *)
THEOREM AloneRequestApplies == Spec => []AloneApplies
<1>1. Init => AloneInv
  BY DEF Init, AloneInv, Alone, Idle
<1>2. TypeOK /\ AloneInv /\ [Next]_vars => AloneInv'
  BY AloneStep
<1>3. AloneInv => AloneApplies
  <2>1. AllHold(row) => Agreement
    BY DEF AllHold, Holds, Agreement, Follows
  <2> QED
    BY <2>1 DEF AloneInv, Alone, AloneApplies, HasApplied, At, Progress, Applying, Restoring
<1> QED
  BY <1>1, <1>2, <1>3, TypeCorrect, PTL DEF Spec

=============================================================================
