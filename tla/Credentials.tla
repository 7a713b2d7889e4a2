----------------------------- MODULE Credentials -----------------------------
(***************************************************************************)
(* The keys and account ids of the two providers: the row bot_settings,    *)
(* and the live clients every thread shares.  Each request that needs the  *)
(* settings, and each poll, calls get_bot_settings, which completes the    *)
(* row and applies it to the clients; the panel's requests then change the *)
(* row, look accounts up over the network, commit and apply again.  The    *)
(* clients' fields are assigned one after the other with no lock, and      *)
(* between the read of the row and the last assignment lie network calls   *)
(* of up to 12 seconds.                                                    *)
(*                                                                         *)
(* An account is named by the key it belongs to: a look-up with key k      *)
(* answers k, or nothing.  Account, profile and username of Zernio are     *)
(* looked up and cleared together and are one id here.  The conversation   *)
(* caches of the messaging client, which apply clears, are left out.       *)
(***************************************************************************)
EXTENDS Naturals, FiniteSets

CONSTANTS KeysOf,       \* the keys of each provider
          None,
          Blank,        \* a field of the form that was sent empty
          Env,          \* the pairs of the .env file, by service
          Poller,       \* the thread of the Instagram worker
          Web,          \* threads that serve requests
          MaxRequests   \* bound on requests that may change the row

Services == {"zernio", "postzen"}
Clients == {"zernio", "instagram", "postzen"}
Keys == UNION {KeysOf[s] : s \in Services}
Id == Keys \cup {None}
Pair == [key : Id, acc : Id]
Row == [Services -> Pair]

\* The form of the panel; None is a field that was not sent, or a masked key.
Field(s) == KeysOf[s] \cup {None, Blank}
Form == {form \in [Services -> [key : Id \cup {Blank}, acc : Id \cup {Blank}]] :
           \A s \in Services : form[s].key \in Field(s) /\ form[s].acc \in Field(s)}

Threads == Web \cup {Poller}

ASSUME CredentialsAssumption == /\ None \notin Keys /\ Blank \notin Keys \cup {None}
                                /\ Poller \notin Web
                                /\ Env \in Row
                                /\ MaxRequests \in Nat

VARIABLES row,       \* bot_settings, committed
          live,      \* the fields of the clients
          cooling,   \* _last_discovery_attempt_at is less than an hour ago
          thread,    \* what each thread is doing
          requests,
          disturbed, \* history: threads that ran while another one did
          doubt      \* history: why key and id in the row may not match

vars == <<row, live, cooling, thread, requests, disturbed, doubt>>

Programs == {"read", "save", "discover", "test", "restore"}

\* loaded: the row as the session read it; mine: the object with the thread's
\* changes; asked: the key or pair a call in flight was sent with, and client
\* the one that sent it for its own use; final: the last apply of the program.
Nothing == [key |-> None, acc |-> None]
Empty == [s \in Services |-> Nothing]
Idle == [at |-> "idle", prog |-> "read", loaded |-> Empty, mine |-> Empty,
         asked |-> Nothing, client |-> "zernio", final |-> FALSE]

Places == {"idle", "lookup", "commit", "keys", "ig_key", "ids", "ig_id", "pzn_key", "pzn_id",
           "ensure", "login", "postzen", "return", "use", "ask_postzen", "ask_zernio", "done"}

Session == [at : Places, prog : Programs, loaded : Row, mine : Row, asked : Pair,
            client : Clients, final : BOOLEAN]

Busy == {t \in Threads : thread[t].at # "idle"}
At(t, place) == thread[t].at = place
Go(t, place) == thread' = [thread EXCEPT ![t].at = place]
GoWith(t, place, m) == thread' = [thread EXCEPT ![t].at = place, ![t].mine = m]
Stop(t) == thread' = [thread EXCEPT ![t] = Idle]
History == <<disturbed, doubt>>

Or(x, y) == IF x # None THEN x ELSE y
InEffect(r, s) == [key |-> Or(r[s].key, Env[s].key), acc |-> Or(r[s].acc, Env[s].acc)]

\* GET /accounts with a key: its account, or nothing (a refusal, a time-out, no
\* account connected).
Answer(k) == IF k = None THEN {None} ELSE {k, None}

-----------------------------------------------------------------------------
(* get_bot_settings.                                                       *)

\* Empty fields are filled from the .env file.
Filled(r) == [s \in Services |-> InEffect(r, s)]

\* The first read of the row; without ids a look-up follows, once an hour.
Begin(t, prog) ==
  LET m == Filled(row)
      ask == m["zernio"].key # None /\ m["zernio"].acc = None /\ ~cooling
  IN  /\ At(t, "idle")
      /\ thread' = [thread EXCEPT ![t] = [at |-> IF ask THEN "lookup" ELSE "commit",
                                          prog |-> prog, loaded |-> row, mine |-> m,
                                          asked |-> Nothing, client |-> "zernio",
                                          final |-> FALSE]]
      /\ cooling' = (cooling \/ ask)
      /\ disturbed' = IF Busy = {} THEN disturbed \ {t} ELSE disturbed \cup Busy \cup {t}
      /\ doubt' = (doubt \/ (/\ m["zernio"].acc # row["zernio"].acc
                             /\ m["zernio"].acc # m["zernio"].key))
      /\ UNCHANGED <<row, live>>

Poll == Begin(Poller, "read") /\ UNCHANGED requests

\* Requests that only read the settings do what a poll does up to its fetch.
Request(t, prog) == /\ requests < MaxRequests
                    /\ requests' = requests + 1
                    /\ Begin(t, prog)

LookUp(t) ==
  /\ At(t, "lookup")
  /\ \E a \in Answer(thread[t].mine["zernio"].key) :
       GoWith(t, "commit", [thread[t].mine EXCEPT !["zernio"].acc = a])
  /\ UNCHANGED <<row, live, cooling, requests, History>>

\* UPDATE of the columns the session changed.
Merged(t) == [s \in Services |->
  [key |-> IF thread[t].mine[s].key # thread[t].loaded[s].key THEN thread[t].mine[s].key
                                                              ELSE row[s].key,
   acc |-> IF thread[t].mine[s].acc # thread[t].loaded[s].acc THEN thread[t].mine[s].acc
                                                              ELSE row[s].acc]]

Changed(t) == thread[t].mine # thread[t].loaded

\* Broken: a row that needed no completion is not applied.
SaveOrReturn(t) ==
  /\ At(t, "commit")
  /\ IF Changed(t) \/ thread[t].final
       THEN /\ row' = Merged(t)
            /\ thread' = [thread EXCEPT ![t].at = "keys", ![t].loaded = row', ![t].mine = row']
            /\ doubt' = (doubt \/ row # thread[t].loaded)
       ELSE /\ Go(t, "return")
            /\ UNCHANGED <<row, doubt>>
  /\ UNCHANGED <<live, cooling, requests, disturbed>>

\* Commit and refresh; get_bot_settings commits only what it has changed.
Save(t) ==
  /\ At(t, "commit")
  /\ IF Changed(t) \/ thread[t].final
       THEN /\ row' = Merged(t)
            /\ thread' = [thread EXCEPT ![t].at = "keys", ![t].loaded = row', ![t].mine = row']
            /\ doubt' = (doubt \/ row # thread[t].loaded)
       ELSE /\ Go(t, "keys")
            /\ UNCHANGED <<row, doubt>>
  /\ UNCHANGED <<live, cooling, requests, disturbed>>

-----------------------------------------------------------------------------
(* apply_credentials_to_services.                                          *)

\* The assignments, one after the other.
Assign(t, place, next, clients) ==
  /\ At(t, place)
  /\ live' = clients
  /\ Go(t, next)
  /\ UNCHANGED <<row, cooling, requests, History>>

WithKey(c, p) == [live EXCEPT ![c].key = p.key]

\* Broken: the messaging client keeps the account id it has.
WithIdOfOne(c, p) == IF c = "instagram" THEN live ELSE [live EXCEPT ![c].acc = p.acc]

WithId(c, p) == [live EXCEPT ![c].acc = p.acc]

ApplyKeys(t) ==
  LET z == InEffect(thread[t].mine, "zernio") IN
  \/ Assign(t, "keys", "ig_key", WithKey("zernio", z))
  \/ Assign(t, "ig_key", "ids", WithKey("instagram", z))

ApplyIds(t) ==
  LET z == InEffect(thread[t].mine, "zernio") IN
  \/ Assign(t, "ids", "ig_id", WithId("zernio", z))
  \/ Assign(t, "ig_id", "pzn_key", WithId("instagram", z))

ApplyPostzenKey(t) ==
  Assign(t, "pzn_key", "pzn_id", WithKey("postzen", InEffect(thread[t].mine, "postzen")))

\* What is left to look up once the ids are in place: account of Zernio
\* (asking with the key the client has by then), account of PostZen.
AfterIds(z, p) == IF z.key # None /\ z.acc = None THEN "ensure"
                  ELSE IF p.key # None /\ p.acc = None THEN "postzen" ELSE "return"

\* What a call in flight was sent with.
Asking(place, clients) == CASE place = "ensure"  -> clients["zernio"]
                            [] place = "postzen" -> clients["postzen"]
                            [] OTHER             -> Nothing

ApplyPostzenId(t) ==
  LET z == InEffect(thread[t].mine, "zernio")
      p == InEffect(thread[t].mine, "postzen")
  IN  /\ At(t, "pzn_id")
      /\ live' = WithId("postzen", p)
      /\ thread' = [thread EXCEPT ![t].at = AfterIds(z, p),
                                  ![t].asked = Asking(AfterIds(z, p), live')]
      /\ UNCHANGED <<row, cooling, requests, History>>

\* Broken: the client is given the answer in place of its key and id.
FoundWhole(c, a) == IF a # None THEN [live EXCEPT ![c] = a] ELSE live

\* The client keeps the account it finds; Zernio's only if it still has none.
FoundAccount(c, a) == IF a = None \/ (c = "zernio" /\ live[c].acc # None) THEN live
                      ELSE [live EXCEPT ![c].acc = a]

\* ensure_configured, then ensure_authenticated, each with the key its client has.
Ensure(t) ==
  /\ At(t, "ensure")
  /\ \E a \in Answer(thread[t].asked.key) : live' = FoundAccount("zernio", a)
  /\ thread' = [thread EXCEPT ![t].at = "login", ![t].asked = live["instagram"]]
  /\ UNCHANGED <<row, cooling, requests, History>>

Login(t) ==
  LET p == InEffect(thread[t].mine, "postzen")
      next == IF p.key # None /\ p.acc = None THEN "postzen" ELSE "return"
      q == thread[t].asked
  IN  /\ At(t, "login")
      /\ \E a \in IF q.acc = None THEN Answer(q.key) ELSE {None} :
           live' = FoundAccount("instagram", a)
      /\ thread' = [thread EXCEPT ![t].at = next, ![t].asked = Asking(next, live)]
      /\ UNCHANGED <<row, cooling, requests, History>>

DiscoverPostzen(t) ==
  /\ At(t, "postzen")
  /\ \E a \in Answer(thread[t].asked.key) : live' = FoundAccount("postzen", a)
  /\ thread' = [thread EXCEPT ![t].at = "return", ![t].asked = Nothing]
  /\ UNCHANGED <<row, cooling, requests, History>>

-----------------------------------------------------------------------------
(* What the callers of get_bot_settings do next.                           *)

\* A request that only read, a poll with the bot switched off, or the end.
Return(t) ==
  /\ At(t, "return")
  /\ thread[t].final \/ thread[t].prog = "read"
  /\ thread[t].prog # "restore"
  /\ Stop(t)
  /\ disturbed' = disturbed \ {t}
  /\ UNCHANGED <<row, live, cooling, requests, doubt>>

\* The end of a restore.
Close(t) == /\ At(t, "done")
            /\ Stop(t)
            /\ disturbed' = disturbed \ {t}
            /\ UNCHANGED <<row, live, cooling, requests, doubt>>

\* A client without an account looks it up before it is used: by the poll after
\* its get_bot_settings, by syncs, sends and the PostZen branch of a test.
Use(t, c) ==
  /\ \/ t \in Web /\ At(t, "idle")
     \/ t = Poller /\ At(t, "return") /\ c = "instagram"
  /\ live[c].key # None /\ live[c].acc = None
  /\ thread' = [thread EXCEPT ![t] = [Idle EXCEPT !.at = "use", !.asked = live[c], !.client = c]]
  /\ disturbed' = disturbed \cup Busy \cup {t}
  /\ UNCHANGED <<row, live, cooling, requests, doubt>>

Used(t) ==
  /\ At(t, "use")
  /\ \E a \in Answer(thread[t].asked.key) : live' = FoundAccount(thread[t].client, a)
  /\ Stop(t)
  /\ disturbed' = disturbed \ {t}
  /\ UNCHANGED <<row, cooling, requests, doubt>>

\* A field as it is after the form: kept, emptied, or typed.
Typed(f, old) == CASE f = None  -> old
                   [] f = Blank -> None
                   [] OTHER     -> f

\* update_settings: a new or emptied key of Zernio clears the ids of the old
\* one, then the ids of the form are taken, whatever the key.
Edited(m, form) ==
  [s \in Services |->
     LET key == Typed(form[s].key, m[s].key)
         cleared == s = "zernio" /\ key # m[s].key
     IN  [key |-> key, acc |-> Typed(form[s].acc, IF cleared THEN None ELSE m[s].acc)]]

MissingPostzen(m) == m["postzen"].key # None /\ m["postzen"].acc = None

\* Broken: a new key is looked up only when no id came with it.
AskedIfMissing(old, m) == m["zernio"].key # None /\ m["zernio"].acc = None

\* A look-up for a new key, and for missing ids.
AskedZernio(old, m) == /\ m["zernio"].key # None
                       /\ m["zernio"].acc = None \/ m["zernio"].key # old["zernio"].key

UpdateSettings(t) ==
  /\ At(t, "return") /\ thread[t].prog = "save" /\ ~thread[t].final
  /\ \E form \in Form :
       LET m == Edited(thread[t].mine, form) IN
       /\ thread' = [thread EXCEPT ![t].mine = m, ![t].final = TRUE,
                       ![t].at = IF MissingPostzen(m) THEN "ask_postzen"
                                 ELSE IF AskedZernio(thread[t].mine, m) THEN "ask_zernio"
                                 ELSE "commit",
                       ![t].asked = IF MissingPostzen(m) THEN thread[t].mine["zernio"]
                                    ELSE Nothing]
       \* An id typed for a key that stays, or is emptied: none is looked up.
       /\ doubt' = (doubt \/ (/\ form["zernio"].acc \in Keys
                              /\ m["zernio"].key \in {None, thread[t].mine["zernio"].key}))
  /\ UNCHANGED <<row, live, cooling, requests, disturbed>>

\* An invalid licence key in the form: nothing is saved.
Refuse(t) ==
  /\ At(t, "return") /\ thread[t].prog = "save" /\ ~thread[t].final
  /\ Stop(t)
  /\ disturbed' = disturbed \ {t}
  /\ UNCHANGED <<row, live, cooling, requests, doubt>>

AskPostzen(t) ==
  LET before == [thread[t].mine EXCEPT !["zernio"] = thread[t].asked] IN
  /\ At(t, "ask_postzen")
  /\ \E a \in Answer(thread[t].mine["postzen"].key) :
       /\ live' = FoundAccount("postzen", a)
       /\ thread' = [thread EXCEPT ![t].mine["postzen"].acc = a, ![t].asked = Nothing,
                       ![t].at = IF AskedZernio(before, thread[t].mine) THEN "ask_zernio"
                                 ELSE "commit"]
  /\ UNCHANGED <<row, cooling, requests, History>>

AskZernio(t) ==
  /\ At(t, "ask_zernio")
  /\ \E a \in Answer(thread[t].mine["zernio"].key) :
       /\ GoWith(t, "commit", [thread[t].mine EXCEPT !["zernio"].acc = Or(a, @)])
       /\ doubt' = (doubt \/ (a = None /\ thread[t].mine["zernio"].acc # None))
  /\ UNCHANGED <<row, live, cooling, requests, disturbed>>

\* auto_discover_credentials: the account of a key, sent or saved.
AutoDiscover(t) ==
  /\ At(t, "return") /\ thread[t].prog = "discover" /\ ~thread[t].final
  /\ \E s \in Services : \E k \in KeysOf[s] \cup {None} :
       \E a \in Answer(Or(k, thread[t].mine[s].key)) :
         /\ live' = IF s = "postzen" THEN FoundAccount(s, a) ELSE live
         /\ IF a = None THEN Stop(t)
            ELSE thread' = [thread EXCEPT ![t].mine[s] = [key |-> a, acc |-> a],
                                          ![t].at = "commit", ![t].final = TRUE]
         /\ disturbed' = IF a = None THEN disturbed \ {t} ELSE disturbed
  /\ UNCHANGED <<row, cooling, requests, doubt>>

\* test_connection: the account of the saved key; a key without any account
\* loses its ids, and that is not applied.  With PostZen as the provider the
\* test ends here and may go on as Use.
TestConnection(t) ==
  /\ At(t, "return") /\ thread[t].prog = "test" /\ ~thread[t].final
  /\ \/ \E a \in Answer(thread[t].mine["zernio"].key) \ {None} :
          /\ thread' = [thread EXCEPT ![t].mine["zernio"].acc = a,
                                      ![t].at = "commit", ![t].final = TRUE]
          /\ UNCHANGED <<row, disturbed, doubt>>
     \/ /\ Stop(t) /\ disturbed' = disturbed \ {t}
        /\ UNCHANGED <<row, doubt>>
     \/ /\ thread[t].mine["zernio"].key # None
        /\ row' = IF thread[t].mine["zernio"].acc # None
                    THEN [row EXCEPT !["zernio"].acc = None] ELSE row
        /\ doubt' = (doubt \/ row # thread[t].loaded)
        /\ Stop(t) /\ disturbed' = disturbed \ {t}
  /\ UNCHANGED <<live, cooling, requests>>

\* restore_backup: the ids of the file and its key, unless masked (None), are
\* applied before the rest of the file is read.
ImportSettings(t) ==
  /\ At(t, "return") /\ thread[t].prog = "restore" /\ ~thread[t].final
  /\ \E k, a \in KeysOf["zernio"] \cup {None} :
       thread' = [thread EXCEPT ![t].mine["zernio"] = [key |-> Or(k, @.key), acc |-> a],
                                ![t].at = "keys", ![t].final = TRUE]
  /\ UNCHANGED <<row, live, cooling, requests, History>>

\* The rest of the file is stored with the settings, or all is rolled back.
ImportRest(t) ==
  /\ At(t, "return") /\ thread[t].prog = "restore" /\ thread[t].final
  /\ \/ /\ row' = Merged(t)
        /\ doubt' = TRUE
        /\ thread' = [thread EXCEPT ![t] = [Idle EXCEPT !.at = "done"]]
        /\ UNCHANGED disturbed
     \/ /\ Stop(t) /\ disturbed' = disturbed \ {t}
        /\ UNCHANGED <<row, doubt>>
  /\ UNCHANGED <<live, cooling, requests>>

-----------------------------------------------------------------------------

\* An hour has passed since the last look-up.
CoolDown == /\ cooling
            /\ cooling' = FALSE
            /\ UNCHANGED <<row, live, thread, requests, History>>

\* The clients start with the .env file, then the saved row is applied, before
\* any request is served; missing accounts may be found or not.
StartUp(p) == IF p.acc # None THEN {p.acc} ELSE Answer(p.key)

Clients0(z, p, a, b, d) ==
  [c \in Clients |-> IF c = "postzen" THEN [key |-> p.key, acc |-> d]
                     ELSE [key |-> z.key, acc |-> IF c = "zernio" THEN a ELSE b]]

Applied(r) == LET z == InEffect(r, "zernio")
                  p == InEffect(r, "postzen")
              IN  {Clients0(z, p, a, b, d) : a, b \in StartUp(z), d \in StartUp(p)}

Restart == /\ live' \in Applied(row)
           /\ cooling' = FALSE
           /\ thread' = [t \in Threads |-> Idle]
           /\ disturbed' = {}
           /\ UNCHANGED <<row, requests, doubt>>

Init == /\ row = Empty
        /\ live \in Applied(row)
        /\ cooling = FALSE
        /\ thread = [t \in Threads |-> Idle]
        /\ requests = 0
        /\ disturbed = {}
        /\ doubt = FALSE

Step(t) == \/ LookUp(t) \/ Save(t) \/ ApplyKeys(t) \/ ApplyIds(t)
           \/ ApplyPostzenKey(t) \/ ApplyPostzenId(t)
           \/ Ensure(t) \/ Login(t) \/ DiscoverPostzen(t)
           \/ Return(t) \/ Close(t) \/ Used(t)
           \/ UpdateSettings(t) \/ Refuse(t) \/ AskPostzen(t) \/ AskZernio(t)
           \/ AutoDiscover(t) \/ TestConnection(t) \/ ImportSettings(t) \/ ImportRest(t)

Next == \/ Poll
        \/ \E t \in Web, prog \in Programs : Request(t, prog)
        \/ \E t \in Threads : Step(t) \/ \E c \in Clients : Use(t, c)
        \/ CoolDown \/ Restart

Spec == Init /\ [][Next]_vars

\* The calls of the worker return (they have time-outs) and it polls again; a
\* request may take for ever.
Fairness == WF_vars(Poll) /\ WF_vars(Step(Poller))

FairSpec == Spec /\ Fairness

-----------------------------------------------------------------------------
(* Properties.                                                             *)

\* Row, clients and threads keep their types; the bound is respected.
TypeOK ==
  /\ row \in Row
  /\ live \in [Clients -> Pair]
  /\ cooling \in BOOLEAN /\ doubt \in BOOLEAN
  /\ thread \in [Threads -> Session]
  /\ requests \in 0..MaxRequests
  /\ disturbed \subseteq Threads

\* The client works with what is saved; where no account is saved, with the
\* account of the saved key or with none.
Follows(c, s) ==
  LET p == InEffect(row, s) IN
  /\ live[c].key = p.key
  /\ live[c].acc \in IF p.acc # None THEN {p.acc} ELSE {None, p.key}

Agreement == Follows("zernio", "zernio") /\ Follows("instagram", "zernio")
                                         /\ Follows("postzen", "postzen")

\* The settings a thread applied are those it left in the row; a restore applies
\* its own before it commits them.
HasApplied(t) == \/ At(t, "done")
                 \/ At(t, "return") /\ ~(thread[t].prog = "restore" /\ thread[t].final)

\* A thread that was alone from its read to its last assignment leaves every
\* client with the saved credentials, whatever slower threads, a restore that
\* was rolled back or a test that cleared the ids left in them.
AloneApplies ==
  \A t \in Threads : HasApplied(t) /\ t \notin disturbed => Agreement

\* The saved key and account belong together unless a look-up of a save left
\* the id of the form in place because it was not answered, an id was typed where
\* none is looked up (for a key that stays, or is emptied), a save overwrote a row
\* that had changed since it was read, or the id came from a backup or, for
\* another key, from the .env file.
AnsweredSaveMatches ==
  ~doubt => row["zernio"].acc \in {None, row["zernio"].key}

\* Once the settings are no longer changed, the clients come to hold the saved
\* credentials and keep them, whatever stale threads applied in between.
ClientsConverge == <>[]Agreement

\* "When the key changes, we clear the ids of the previous account so that they
\* do not interfere with the new page" (settings.py:145): a save that stores a
\* new key stores no account of another one with it.
KeyOwnsAccount ==
  [][\A t \in Web : /\ At(t, "commit") /\ thread[t].prog = "save" /\ thread[t].final
                     /\ Save(t)
                     /\ row'["zernio"].key \notin {None, row["zernio"].key}
                       => row'["zernio"].acc \in {None, row'["zernio"].key}]_vars

=============================================================================
