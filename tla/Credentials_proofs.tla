------------------------- MODULE Credentials_proofs -------------------------
(***************************************************************************)
(* Proofs about Credentials for every set of keys and threads, every .env  *)
(* file and every number of requests and restarts.                         *)
(***************************************************************************)
EXTENDS Credentials, TLAPS

LEMMA PairType ==
  ASSUME NEW r \in Row, NEW s \in Services
  PROVE  InEffect(r, s) \in Pair
  BY CredentialsAssumption DEF InEffect, Or, Row, Pair, Id

LEMMA FilledType == ASSUME NEW r \in Row PROVE Filled(r) \in Row
  BY PairType DEF Filled, Row

LEMMA AnswerType ==
  ASSUME NEW k \in Id
  PROVE  /\ Answer(k) \subseteq Id
         /\ \A a \in Answer(k) : a = None \/ (a = k /\ a \in Keys)
  BY DEF Answer, Id

LEMMA EmptyTypes == Nothing \in Pair /\ Empty \in Row /\ Idle \in Session
<1>1. Nothing \in Pair /\ Empty \in Row
  BY DEF Nothing, Empty, Pair, Row, Id
<1> QED
  BY <1>1 DEF Idle, Session, Places, Programs, Clients

LEMMA AppliedType == ASSUME NEW r \in Row PROVE Applied(r) \subseteq [Clients -> Pair]
<1>1. PICK z \in Pair, p \in Pair : z = InEffect(r, "zernio") /\ p = InEffect(r, "postzen")
  BY PairType DEF Services
<1>2. StartUp(z) \subseteq Id /\ StartUp(p) \subseteq Id
  BY AnswerType DEF StartUp, Pair
<1>3. ASSUME NEW a \in StartUp(z), NEW b \in StartUp(z), NEW d \in StartUp(p)
      PROVE  Clients0(z, p, a, b, d) \in [Clients -> Pair]
  BY <1>2 DEF Clients0, Pair, Clients
<1>4. Applied(r) = {Clients0(z, p, a, b, d) : a \in StartUp(z), b \in StartUp(z), d \in StartUp(p)}
  BY <1>1 DEF Applied
<1> QED
  BY <1>3, <1>4

LEMMA TypeInit == Init => TypeOK
<1> SUFFICES ASSUME Init PROVE TypeOK
  OBVIOUS
<1>1. row \in Row /\ live \in [Clients -> Pair]
  <2>1. row \in Row
    BY EmptyTypes DEF Init
  <2>2. Applied(row) \subseteq [Clients -> Pair]
    BY <2>1, AppliedType
  <2> QED
    BY <2>1, <2>2 DEF Init
<1>2. thread \in [Threads -> Session]
  BY EmptyTypes DEF Init
<1>3. requests \in 0..MaxRequests
  BY CredentialsAssumption DEF Init
<1> QED
  BY <1>1, <1>2, <1>3 DEF Init, TypeOK

(* Any fields of a session may be replaced by well-typed ones.             *)
LEMMA SessionType ==
  ASSUME TypeOK, NEW t \in Threads, NEW s \in Session, thread' = [thread EXCEPT ![t] = s]
  PROVE  thread' \in [Threads -> Session]
  BY DEF TypeOK

LEMMA HeldType ==
  ASSUME TypeOK, NEW t \in Threads
  PROVE  /\ thread[t] \in Session
         /\ thread[t].loaded \in Row /\ thread[t].mine \in Row /\ thread[t].asked \in Pair
         /\ thread[t].prog \in Programs /\ thread[t].final \in BOOLEAN
         /\ thread[t].client \in Clients
         /\ InEffect(thread[t].mine, "zernio") \in Pair
         /\ InEffect(thread[t].mine, "postzen") \in Pair
         /\ thread[t].mine["zernio"] \in Pair /\ thread[t].mine["postzen"] \in Pair
<1>1. thread[t] \in Session
  BY DEF TypeOK
<1>2. thread[t].mine \in Row
  BY <1>1 DEF Session
<1> QED
  BY <1>1, <1>2, PairType DEF Session, Services, Row

(* A thread that moves to a place with a changed row, or to one where a    *)
(* call with q is in flight.                                               *)
LEMMA MovedMine ==
  ASSUME NEW S, NEW f \in [Threads -> S], NEW t \in Threads, NEW place, NEW m,
         [f[t] EXCEPT !.at = place, !.mine = m] \in S
  PROVE  [f EXCEPT ![t].at = place, ![t].mine = m] \in [Threads -> S]
  OBVIOUS

LEMMA MovedAsked ==
  ASSUME NEW S, NEW f \in [Threads -> S], NEW t \in Threads, NEW place, NEW q,
         [f[t] EXCEPT !.at = place, !.asked = q] \in S
  PROVE  [f EXCEPT ![t].at = place, ![t].asked = q] \in [Threads -> S]
  OBVIOUS

LEMMA GoWithType ==
  ASSUME TypeOK, NEW t \in Threads, NEW place \in Places, NEW m \in Row, GoWith(t, place, m)
  PROVE  thread' \in [Threads -> Session]
<1>1. ASSUME NEW a \in Session PROVE [a EXCEPT !.at = place, !.mine = m] \in Session
  BY <1>1 DEF Session
<1>2. thread \in [Threads -> Session] /\ thread[t] \in Session
  BY DEF TypeOK
<1>3. [thread[t] EXCEPT !.at = place, !.mine = m] \in Session
  BY <1>1, <1>2
<1> QED
  BY <1>2, <1>3, MovedMine DEF GoWith

LEMMA GoAskType ==
  ASSUME TypeOK, NEW t \in Threads, NEW place \in Places, NEW q \in Pair,
         thread' = [thread EXCEPT ![t].at = place, ![t].asked = q]
  PROVE  thread' \in [Threads -> Session]
<1>1. ASSUME NEW a \in Session PROVE [a EXCEPT !.at = place, !.asked = q] \in Session
  BY <1>1 DEF Session
<1>2. thread \in [Threads -> Session] /\ thread[t] \in Session
  BY DEF TypeOK
<1>3. [thread[t] EXCEPT !.at = place, !.asked = q] \in Session
  BY <1>1, <1>2
<1> QED
  BY <1>2, <1>3, MovedAsked

LEMMA BeginType ==
  ASSUME TypeOK, NEW t \in Threads, NEW prog \in Programs, Begin(t, prog),
         requests' \in 0..MaxRequests
  PROVE  TypeOK'
<1> DEFINE m == Filled(row)
           ask == m["zernio"].key # None /\ m["zernio"].acc = None /\ ~cooling
           s == [at |-> IF ask THEN "lookup" ELSE "commit", prog |-> prog, loaded |-> row,
                 mine |-> m, asked |-> Nothing, client |-> "zernio", final |-> FALSE]
<1>1. m \in Row
  BY FilledType DEF TypeOK
<1>2. s \in Session
  BY <1>1, EmptyTypes DEF Session, Places, Clients, TypeOK
<1>3. thread' \in [Threads -> Session]
  BY <1>2, SessionType DEF Begin
<1>4. disturbed' \subseteq Threads
  BY DEF Begin, Busy, TypeOK
<1> QED
  BY <1>3, <1>4 DEF Begin, TypeOK

LEMMA LookUpType == ASSUME TypeOK, NEW t \in Threads, LookUp(t) PROVE TypeOK'
<1>1. PICK a \in Answer(thread[t].mine["zernio"].key) :
        GoWith(t, "commit", [thread[t].mine EXCEPT !["zernio"].acc = a])
  BY DEF LookUp
<1>2. a \in Id
  BY <1>1, HeldType, AnswerType DEF Pair
<1>3. [thread[t].mine EXCEPT !["zernio"].acc = a] \in Row
  BY <1>2, HeldType DEF Row, Pair, Services
<1>4. thread' \in [Threads -> Session]
  BY <1>1, <1>3, GoWithType DEF Places
<1> QED
  BY <1>4 DEF LookUp, TypeOK, History

LEMMA MergedType == ASSUME TypeOK, NEW t \in Threads PROVE Merged(t) \in Row
<1>1. \A s \in Services : /\ thread[t].mine[s] \in Pair
                         /\ row[s] \in Pair
  BY HeldType DEF Row, TypeOK
<1> QED
  BY <1>1 DEF Merged, Row, Pair

LEMMA SaveType == ASSUME TypeOK, NEW t \in Threads, Save(t) PROVE TypeOK'
<1>1. CASE Changed(t) \/ thread[t].final
  <2>1. PICK m \in Row : m = Merged(t)
    BY MergedType
  <2>2. /\ row' = m
        /\ thread' = [thread EXCEPT ![t].at = "keys", ![t].loaded = m, ![t].mine = m]
    BY <1>1, <2>1 DEF Save
  <2>3. thread' \in [Threads -> Session]
    <3>1. [thread[t] EXCEPT !.at = "keys", !.loaded = m, !.mine = m] \in Session
      BY HeldType DEF Session, Places
    <3> QED
      BY <2>2, <3>1 DEF TypeOK
  <2>4. doubt' \in BOOLEAN /\ UNCHANGED <<live, cooling, requests, disturbed>>
    BY <1>1 DEF Save, TypeOK
  <2> QED
    BY <2>2, <2>3, <2>4 DEF TypeOK
<1>2. CASE ~(Changed(t) \/ thread[t].final)
  <2>1. thread' \in [Threads -> Session]
    BY <1>2, HeldType DEF Save, Go, Session, Places, TypeOK
  <2> QED
    BY <1>2, <2>1 DEF Save, TypeOK
<1> QED
  BY <1>1, <1>2

(* The clients after an assignment, and after a look-up.                   *)
LEMMA WithType ==
  ASSUME TypeOK, NEW c \in Clients, NEW p \in Pair
  PROVE  WithKey(c, p) \in [Clients -> Pair] /\ WithId(c, p) \in [Clients -> Pair]
  BY DEF TypeOK, Pair, WithKey, WithId

LEMMA FoundType ==
  ASSUME TypeOK, NEW c \in Clients, NEW a \in Id
  PROVE  FoundAccount(c, a) \in [Clients -> Pair]
  BY DEF FoundAccount, TypeOK, Pair

LEMMA ApplyType ==
  ASSUME TypeOK, NEW t \in Threads, ApplyKeys(t) \/ ApplyIds(t) \/ ApplyPostzenKey(t)
  PROVE  TypeOK'
<1> USE DEF Assign
<1>1. PICK z \in Pair, p \in Pair :
        z = InEffect(thread[t].mine, "zernio") /\ p = InEffect(thread[t].mine, "postzen")
  BY HeldType
<1>2. live' \in {WithKey("zernio", z), WithKey("instagram", z), WithId("zernio", z),
                 WithId("instagram", z), WithKey("postzen", p)}
  BY <1>1 DEF ApplyKeys, ApplyIds, ApplyPostzenKey
<1>3. live' \in [Clients -> Pair]
  BY <1>2, WithType DEF Clients
<1>4. PICK next \in {"ig_key", "ids", "ig_id", "pzn_key", "pzn_id"} :
        thread' = [thread EXCEPT ![t].at = next]
  BY DEF ApplyKeys, ApplyIds, ApplyPostzenKey, Go
<1>5. thread' \in [Threads -> Session]
  BY <1>4, HeldType DEF Session, Places, TypeOK
<1>6. UNCHANGED <<row, cooling, requests, disturbed, doubt>>
  BY DEF ApplyKeys, ApplyIds, ApplyPostzenKey, History
<1> QED
  BY <1>3, <1>5, <1>6 DEF TypeOK

LEMMA AskingType ==
  ASSUME NEW clients \in [Clients -> Pair], NEW place
  PROVE  Asking(place, clients) \in Pair
<1>1. CASE place = "ensure"
  BY <1>1 DEF Asking, Clients
<1>2. CASE place = "postzen"
  BY <1>2 DEF Asking, Clients
<1>3. CASE place # "ensure" /\ place # "postzen"
  BY <1>3, EmptyTypes DEF Asking
<1> QED
  BY <1>1, <1>2, <1>3

LEMMA ApplyPostzenIdType == ASSUME TypeOK, NEW t \in Threads, ApplyPostzenId(t) PROVE TypeOK'
<1> DEFINE z == InEffect(thread[t].mine, "zernio")
           p == InEffect(thread[t].mine, "postzen")
<1>1. live' \in [Clients -> Pair]
  BY HeldType, WithType DEF ApplyPostzenId, Clients
<1>2. AfterIds(z, p) \in Places /\ Asking(AfterIds(z, p), live') \in Pair
  BY <1>1, AskingType DEF AfterIds, Places
<1>3. PICK n \in Places, q \in Pair : thread' = [thread EXCEPT ![t].at = n, ![t].asked = q]
  BY <1>2 DEF ApplyPostzenId
<1>4. thread' \in [Threads -> Session]
  BY <1>3, GoAskType
<1> QED
  BY <1>1, <1>4 DEF ApplyPostzenId, TypeOK, History

LEMMA EnsureType == ASSUME TypeOK, NEW t \in Threads, Ensure(t) PROVE TypeOK'
<1>1. live' \in [Clients -> Pair]
  <2>1. PICK a \in Answer(thread[t].asked.key) : live' = FoundAccount("zernio", a)
    BY DEF Ensure
  <2>2. a \in Id
    BY HeldType, AnswerType DEF Pair
  <2> QED
    BY <2>1, <2>2, FoundType DEF Clients
<1>2. live["instagram"] \in Pair
  BY DEF TypeOK, Clients
<1>3. thread' \in [Threads -> Session]
  BY <1>2, GoAskType DEF Ensure, Places
<1> QED
  BY <1>1, <1>3 DEF Ensure, TypeOK, History

LEMMA LoginType == ASSUME TypeOK, NEW t \in Threads, Login(t) PROVE TypeOK'
<1> DEFINE p == InEffect(thread[t].mine, "postzen")
           next == IF p.key # None /\ p.acc = None THEN "postzen" ELSE "return"
           q == thread[t].asked
<1>1. live' \in [Clients -> Pair]
  <2>1. PICK a \in IF q.acc = None THEN Answer(q.key) ELSE {None} :
          live' = FoundAccount("instagram", a)
    BY DEF Login
  <2>2. a \in Id
    BY HeldType, AnswerType DEF Pair, Id
  <2> QED
    BY <2>1, <2>2, FoundType DEF Clients
<1>2. Asking(next, live) \in Pair /\ next \in Places
  BY AskingType DEF TypeOK, Places
<1>3. PICK n \in Places, asked \in Pair :
        thread' = [thread EXCEPT ![t].at = n, ![t].asked = asked]
  BY <1>2 DEF Login
<1>4. thread' \in [Threads -> Session]
  BY <1>3, GoAskType
<1> QED
  BY <1>1, <1>4 DEF Login, TypeOK, History

LEMMA DiscoverType == ASSUME TypeOK, NEW t \in Threads, DiscoverPostzen(t) PROVE TypeOK'
<1>1. live' \in [Clients -> Pair]
  <2>1. PICK a \in Answer(thread[t].asked.key) : live' = FoundAccount("postzen", a)
    BY DEF DiscoverPostzen
  <2>2. a \in Id
    BY HeldType, AnswerType DEF Pair
  <2> QED
    BY <2>1, <2>2, FoundType DEF Clients
<1>2. thread' \in [Threads -> Session]
  BY EmptyTypes, GoAskType DEF DiscoverPostzen, Places
<1> QED
  BY <1>1, <1>2 DEF DiscoverPostzen, TypeOK, History

(* A thread that ends, or has nothing left but its last place.             *)
LEMMA IdleType ==
  ASSUME TypeOK, NEW t \in Threads, Stop(t)
  PROVE  thread' \in [Threads -> Session]
  BY EmptyTypes, SessionType DEF Stop

LEMMA PlaceType ==
  ASSUME TypeOK, NEW t \in Threads, NEW place \in Places,
         thread' = [thread EXCEPT ![t] = [Idle EXCEPT !.at = place]]
  PROVE  thread' \in [Threads -> Session]
<1>1. [Idle EXCEPT !.at = place] \in Session
  BY EmptyTypes DEF Session
<1> QED
  BY <1>1, SessionType

LEMMA UseType == ASSUME TypeOK, NEW t \in Threads, NEW c \in Clients, Use(t, c) PROVE TypeOK'
<1>1. [Idle EXCEPT !.at = "use", !.asked = live[c], !.client = c] \in Session
  BY EmptyTypes DEF Session, Places, TypeOK
<1>2. thread' \in [Threads -> Session]
  BY <1>1, SessionType DEF Use
<1>3. disturbed' \subseteq Threads
  BY DEF Use, Busy, TypeOK
<1> QED
  BY <1>2, <1>3 DEF Use, TypeOK

LEMMA EndType ==
  ASSUME TypeOK, NEW t \in Threads, Return(t) \/ Close(t) \/ Used(t)
  PROVE  TypeOK'
<1>1. CASE Return(t) \/ Close(t)
  BY <1>1, IdleType DEF Return, Close, TypeOK
<1>2. CASE Used(t)
  <2>1. PICK a \in Answer(thread[t].asked.key) : live' = FoundAccount(thread[t].client, a)
    BY <1>2 DEF Used
  <2>2. a \in Id
    BY HeldType, AnswerType DEF Pair
  <2>3. live' \in [Clients -> Pair]
    BY <2>1, <2>2, HeldType, FoundType
  <2> QED
    BY <1>2, <2>3, IdleType DEF Used, TypeOK
<1> QED
  BY <1>1, <1>2

LEMMA EditedType ==
  ASSUME NEW m \in Row, NEW form \in Form
  PROVE  Edited(m, form) \in Row
<1>1. ASSUME NEW f \in Id \cup {Blank}, NEW old \in Id PROVE Typed(f, old) \in Id
  BY CredentialsAssumption DEF Typed, Id
<1>2. ASSUME NEW s \in Services PROVE Edited(m, form)[s] \in Pair
  <2> DEFINE key == Typed(form[s].key, m[s].key)
             cleared == s = "zernio" /\ key # m[s].key
             old == IF cleared THEN None ELSE m[s].acc
  <2>1. form[s].key \in Id \cup {Blank} /\ form[s].acc \in Id \cup {Blank}
    BY DEF Form
  <2>2. m[s].key \in Id /\ old \in Id
    BY DEF Row, Pair, Id
  <2>3. key \in Id /\ Typed(form[s].acc, old) \in Id
    BY <1>1, <2>1, <2>2
  <2>4. Edited(m, form)[s] = [key |-> key, acc |-> Typed(form[s].acc, old)]
    BY DEF Edited
  <2> QED
    BY <2>3, <2>4 DEF Pair
<1> QED
  BY <1>2 DEF Row, Edited

(* What a save of the form does to its thread.                             *)
LEMMA EditMoves ==
  ASSUME TypeOK, NEW t \in Threads, UpdateSettings(t)
  PROVE  \E m \in Row, q \in Pair : \E place \in {"ask_postzen", "ask_zernio", "commit"} :
           thread' = [thread EXCEPT ![t].mine = m, ![t].final = TRUE,
                                    ![t].at = place, ![t].asked = q]
<1>1. PICK form \in Form :
        LET m == Edited(thread[t].mine, form) IN
        thread' = [thread EXCEPT ![t].mine = m, ![t].final = TRUE,
                       ![t].at = IF MissingPostzen(m) THEN "ask_postzen"
                                 ELSE IF AskedZernio(thread[t].mine, m) THEN "ask_zernio"
                                 ELSE "commit",
                       ![t].asked = IF MissingPostzen(m) THEN thread[t].mine["zernio"]
                                    ELSE Nothing]
  BY DEF UpdateSettings
<1>2. PICK m \in Row : m = Edited(thread[t].mine, form)
  BY EditedType, HeldType
<1>3. PICK place \in {"ask_postzen", "ask_zernio", "commit"} :
        place = IF MissingPostzen(m) THEN "ask_postzen"
                ELSE IF AskedZernio(thread[t].mine, m) THEN "ask_zernio" ELSE "commit"
  OBVIOUS
<1>4. PICK q \in Pair : q = IF MissingPostzen(m) THEN thread[t].mine["zernio"] ELSE Nothing
  BY HeldType, EmptyTypes
<1>5. thread' = [thread EXCEPT ![t].mine = m, ![t].final = TRUE, ![t].at = place, ![t].asked = q]
  BY <1>1, <1>2, <1>3, <1>4
<1> QED
  BY <1>5

(* The requests of the panel.                                              *)
LEMMA PanelType ==
  ASSUME TypeOK, NEW t \in Threads,
         \/ UpdateSettings(t) \/ Refuse(t) \/ AskPostzen(t) \/ AskZernio(t)
         \/ AutoDiscover(t) \/ TestConnection(t) \/ ImportSettings(t) \/ ImportRest(t)
  PROVE  TypeOK'
<1> USE DEF History
<1>1. CASE UpdateSettings(t)
  <2>1. PICK m \in Row, q \in Pair : \E place \in {"ask_postzen", "ask_zernio", "commit"} :
          thread' = [thread EXCEPT ![t].mine = m, ![t].final = TRUE,
                                   ![t].at = place, ![t].asked = q]
    BY <1>1, EditMoves
  <2>a. PICK place \in {"ask_postzen", "ask_zernio", "commit"} :
          thread' = [thread EXCEPT ![t].mine = m, ![t].final = TRUE,
                                   ![t].at = place, ![t].asked = q]
    BY <2>1
  <2>2. [thread[t] EXCEPT !.mine = m, !.final = TRUE, !.at = place, !.asked = q] \in Session
    BY HeldType DEF Session, Places
  <2>3. thread' \in [Threads -> Session]
    BY <2>a, <2>2 DEF TypeOK
  <2>4. doubt' \in BOOLEAN
    BY <1>1 DEF UpdateSettings, TypeOK
  <2> QED
    BY <1>1, <2>3, <2>4 DEF UpdateSettings, TypeOK
<1>2. CASE Refuse(t)
  BY <1>2, IdleType DEF Refuse, TypeOK
<1>3. CASE AskPostzen(t)
  <2>1. PICK a \in Id, place \in {"ask_zernio", "commit"} :
          /\ live' = FoundAccount("postzen", a)
          /\ thread' = [thread EXCEPT ![t].mine["postzen"].acc = a, ![t].asked = Nothing,
                                      ![t].at = place]
    BY <1>3, HeldType, AnswerType DEF AskPostzen, Pair
  <2>2. PICK m \in Row : m = [thread[t].mine EXCEPT !["postzen"].acc = a]
    <3>1. [thread[t].mine EXCEPT !["postzen"].acc = a] \in Row
      BY HeldType DEF Row, Pair, Services
    <3> QED
      BY <3>1
  <2>3. [thread[t] EXCEPT !.mine = m, !.asked = Nothing, !.at = place] \in Session
    BY EmptyTypes, HeldType DEF Session, Places
  <2>4. thread' = [thread EXCEPT ![t] = [thread[t] EXCEPT !.mine = m, !.asked = Nothing,
                                                          !.at = place]]
    BY <2>1, <2>2
  <2>5. thread' \in [Threads -> Session]
    BY <2>3, <2>4, SessionType
  <2>6. live' \in [Clients -> Pair]
    BY <2>1, FoundType DEF Clients
  <2> QED
    BY <1>3, <2>5, <2>6 DEF AskPostzen, TypeOK
<1>4. CASE AskZernio(t)
  <2>1. PICK a \in Answer(thread[t].mine["zernio"].key) :
          /\ GoWith(t, "commit", [thread[t].mine EXCEPT !["zernio"].acc = Or(a, @)])
          /\ doubt' = (doubt \/ (a = None /\ thread[t].mine["zernio"].acc # None))
    BY <1>4 DEF AskZernio
  <2>a. a \in Id
    BY HeldType, AnswerType DEF Pair
  <2>2. [thread[t].mine EXCEPT !["zernio"].acc = Or(a, @)] \in Row
    BY <2>a, HeldType DEF Row, Pair, Services, Or
  <2>3. thread' \in [Threads -> Session]
    BY <2>1, <2>2, GoWithType DEF Places
  <2>4. doubt' \in BOOLEAN
    BY <2>1 DEF TypeOK
  <2> QED
    BY <1>4, <2>3, <2>4 DEF AskZernio, TypeOK
<1>5. CASE AutoDiscover(t)
  <2>0. PICK s \in Services : \E k \in KeysOf[s] \cup {None} : \E a \in Answer(Or(k, thread[t].mine[s].key)) :
          /\ live' = IF s = "postzen" THEN FoundAccount(s, a) ELSE live
          /\ IF a = None THEN Stop(t)
             ELSE thread' = [thread EXCEPT ![t].mine[s] = [key |-> a, acc |-> a],
                                           ![t].at = "commit", ![t].final = TRUE]
          /\ disturbed' = IF a = None THEN disturbed \ {t} ELSE disturbed
    BY <1>5 DEF AutoDiscover
  <2>k. PICK k \in KeysOf[s] \cup {None} : \E a \in Answer(Or(k, thread[t].mine[s].key)) :
          /\ live' = IF s = "postzen" THEN FoundAccount(s, a) ELSE live
          /\ IF a = None THEN Stop(t)
             ELSE thread' = [thread EXCEPT ![t].mine[s] = [key |-> a, acc |-> a],
                                           ![t].at = "commit", ![t].final = TRUE]
          /\ disturbed' = IF a = None THEN disturbed \ {t} ELSE disturbed
    BY <2>0
  <2>1. PICK a \in Answer(Or(k, thread[t].mine[s].key)) :
          /\ live' = IF s = "postzen" THEN FoundAccount(s, a) ELSE live
          /\ IF a = None THEN Stop(t)
             ELSE thread' = [thread EXCEPT ![t].mine[s] = [key |-> a, acc |-> a],
                                           ![t].at = "commit", ![t].final = TRUE]
          /\ disturbed' = IF a = None THEN disturbed \ {t} ELSE disturbed
    BY <2>k
  <2>2. thread[t].mine[s] \in Pair /\ k \in Id
    BY HeldType DEF Row, Keys, Id
  <2>3. Or(k, thread[t].mine[s].key) \in Id
    BY <2>2 DEF Or, Pair
  <2>4. a \in Id
    BY <2>3, AnswerType
  <2>5. live' \in [Clients -> Pair]
    BY <2>1, <2>4, FoundType DEF TypeOK, Clients
  <2>6. thread' \in [Threads -> Session]
    <3>1. CASE a = None
      BY <2>1, <3>1, IdleType
    <3>2. CASE a # None
      <4>1. [thread[t].mine EXCEPT ![s] = [key |-> a, acc |-> a]] \in Row
        BY <2>4, HeldType DEF Row, Pair
      <4>2. [thread[t] EXCEPT !.mine = [thread[t].mine EXCEPT ![s] = [key |-> a, acc |-> a]],
                              !.at = "commit", !.final = TRUE] \in Session
        BY <4>1, HeldType DEF Session, Places
      <4>3. thread' = [thread EXCEPT ![t] =
              [thread[t] EXCEPT !.mine = [thread[t].mine EXCEPT ![s] = [key |-> a, acc |-> a]],
                                !.at = "commit", !.final = TRUE]]
        BY <2>1, <3>2
      <4> QED
        BY <4>2, <4>3, SessionType
    <3> QED
      BY <3>1, <3>2
  <2>7. disturbed' \subseteq Threads
    BY <2>1 DEF TypeOK
  <2> QED
    BY <1>5, <2>5, <2>6, <2>7 DEF AutoDiscover, TypeOK
<1>6. CASE TestConnection(t)
  <2>1. CASE \E a \in Answer(thread[t].mine["zernio"].key) \ {None} :
               /\ thread' = [thread EXCEPT ![t].mine["zernio"].acc = a,
                                           ![t].at = "commit", ![t].final = TRUE]
               /\ UNCHANGED <<row, disturbed, doubt>>
    <3>1. PICK a \in Id : thread' = [thread EXCEPT ![t].mine["zernio"].acc = a,
                                           ![t].at = "commit", ![t].final = TRUE]
      BY <2>1, HeldType, AnswerType DEF Pair
    <3>2. PICK m \in Row : m = [thread[t].mine EXCEPT !["zernio"].acc = a]
      <4>1. [thread[t].mine EXCEPT !["zernio"].acc = a] \in Row
        BY HeldType DEF Row, Pair, Services
      <4> QED
        BY <4>1
    <3>3. [thread[t] EXCEPT !.mine = m, !.at = "commit", !.final = TRUE] \in Session
      BY HeldType DEF Session, Places
    <3>4. thread' = [thread EXCEPT ![t] = [thread[t] EXCEPT !.mine = m, !.at = "commit",
                                                            !.final = TRUE]]
      BY <3>1, <3>2
    <3>5. thread' \in [Threads -> Session]
      BY <3>3, <3>4, SessionType
    <3> QED
      BY <1>6, <2>1, <3>5 DEF TestConnection, TypeOK
  <2>2. CASE Stop(t) /\ disturbed' = disturbed \ {t} /\ UNCHANGED <<row, doubt>>
    BY <1>6, <2>2, IdleType DEF TestConnection, TypeOK
  <2>3. CASE /\ row' = IF thread[t].mine["zernio"].acc # None
                         THEN [row EXCEPT !["zernio"].acc = None] ELSE row
             /\ doubt' = (doubt \/ row # thread[t].loaded)
             /\ Stop(t) /\ disturbed' = disturbed \ {t}
    <3>1. [row EXCEPT !["zernio"].acc = None] \in Row
      BY DEF TypeOK, Row, Pair, Id
    <3>2. row' \in Row /\ doubt' \in BOOLEAN
      BY <2>3, <3>1 DEF TypeOK
    <3> QED
      BY <1>6, <2>3, <3>2, IdleType DEF TestConnection, TypeOK
  <2> QED
    BY <1>6, <2>1, <2>2, <2>3 DEF TestConnection
<1>7. CASE ImportSettings(t)
  <2>1. PICK k \in Id, a \in Id :
          thread' = [thread EXCEPT ![t].mine["zernio"] = [key |-> Or(k, @.key), acc |-> a],
                                   ![t].at = "keys", ![t].final = TRUE]
    BY <1>7 DEF ImportSettings, Keys, Id, Services
  <2>2. PICK m \in Row : m = [thread[t].mine EXCEPT !["zernio"] = [key |-> Or(k, @.key), acc |-> a]]
    <3>1. [thread[t].mine EXCEPT !["zernio"] = [key |-> Or(k, @.key), acc |-> a]] \in Row
      BY HeldType DEF Row, Pair, Services, Or
    <3> QED
      BY <3>1
  <2>3. [thread[t] EXCEPT !.mine = m, !.at = "keys", !.final = TRUE] \in Session
    BY HeldType DEF Session, Places
  <2>4. thread' = [thread EXCEPT ![t] = [thread[t] EXCEPT !.mine = m, !.at = "keys",
                                                          !.final = TRUE]]
    BY <2>1, <2>2
  <2>5. thread' \in [Threads -> Session]
    BY <2>3, <2>4, SessionType
  <2> QED
    BY <1>7, <2>5 DEF ImportSettings, TypeOK
<1>8. CASE ImportRest(t)
  <2>1. "done" \in Places
    BY DEF Places
  <2> QED
    BY <1>8, <2>1, MergedType, IdleType, PlaceType DEF ImportRest, TypeOK
<1> QED
  BY <1>1, <1>2, <1>3, <1>4, <1>5, <1>6, <1>7, <1>8

LEMMA TypeStep == TypeOK /\ [Next]_vars => TypeOK'
<1> SUFFICES ASSUME TypeOK, [Next]_vars PROVE TypeOK'
  OBVIOUS
<1>1. CASE Poll
  BY <1>1, BeginType DEF Poll, TypeOK, Threads, Programs
<1>2. ASSUME NEW t \in Web, NEW prog \in Programs, Request(t, prog) PROVE TypeOK'
  <2>1. requests' \in 0..MaxRequests
    BY <1>2, CredentialsAssumption DEF Request, TypeOK
  <2> QED
    BY <1>2, <2>1, BeginType DEF Request, Threads
<1>3. ASSUME NEW t \in Threads, Step(t) PROVE TypeOK'
  BY <1>3, LookUpType, SaveType, ApplyType, ApplyPostzenIdType, EnsureType, LoginType,
     DiscoverType, EndType, PanelType DEF Step
<1>4. CASE CoolDown
  BY <1>4 DEF CoolDown, TypeOK, History
<1>5. CASE Restart
  <2>1. live' \in [Clients -> Pair]
    BY <1>5, AppliedType DEF Restart, TypeOK
  <2>2. thread' \in [Threads -> Session]
    BY <1>5, EmptyTypes DEF Restart
  <2> QED
    BY <1>5, <2>1, <2>2 DEF Restart, TypeOK
<1>6. CASE UNCHANGED vars
  BY <1>6 DEF vars, TypeOK
<1> QED
  BY <1>1, <1>2, <1>3, <1>4, <1>5, <1>6, UseType DEF Next

(* Row, clients and threads keep their types and the bound is respected,   *)
(* for every number of keys, threads, requests and restarts.               *)
THEOREM TypeCorrect == Spec => []TypeOK
  BY TypeInit, TypeStep, PTL DEF Spec

-----------------------------------------------------------------------------
(* A step of one thread leaves the others where they are, and an idle      *)
(* thread takes no step.                                                   *)
LEMMA OthersWait ==
  ASSUME TypeOK, NEW t \in Threads, Step(t)
  PROVE  /\ thread[t].at # "idle"
         /\ \A u \in Threads \ {t} : thread'[u] = thread[u]
         /\ disturbed \ {t} \subseteq disturbed'
<1> USE DEF At, Go, GoWith, Stop, History, TypeOK
<1>1. CASE LookUp(t) \/ Save(t)
  BY <1>1 DEF LookUp, Save
<1>a. CASE ApplyKeys(t) \/ ApplyIds(t) \/ ApplyPostzenKey(t)
  BY <1>a DEF ApplyKeys, ApplyIds, ApplyPostzenKey, Assign
<1>b. CASE ApplyPostzenId(t)
  BY <1>b DEF ApplyPostzenId
<1>2. CASE Ensure(t) \/ Login(t) \/ DiscoverPostzen(t)
  BY <1>2 DEF Ensure, Login, DiscoverPostzen
<1>3. CASE Return(t) \/ Close(t) \/ Used(t)
  BY <1>3 DEF Return, Close, Used
<1>4. CASE UpdateSettings(t)
  <2>1. PICK m \in Row, q \in Pair : \E place \in {"ask_postzen", "ask_zernio", "commit"} :
          thread' = [thread EXCEPT ![t].mine = m, ![t].final = TRUE,
                                   ![t].at = place, ![t].asked = q]
    BY <1>4, EditMoves
  <2> QED
    BY <1>4, <2>1 DEF UpdateSettings, At
<1>5. CASE Refuse(t) \/ AskPostzen(t) \/ AskZernio(t)
  BY <1>5 DEF Refuse, AskPostzen, AskZernio
<1>6. CASE AutoDiscover(t) \/ TestConnection(t)
  BY <1>6 DEF AutoDiscover, TestConnection
<1>7. CASE ImportSettings(t) \/ ImportRest(t)
  BY <1>7 DEF ImportSettings, ImportRest
<1> QED
  BY <1>1, <1>2, <1>3, <1>4, <1>5, <1>6, <1>7, <1>a, <1>b DEF Step

=============================================================================
