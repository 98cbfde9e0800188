----------------------------- MODULE GatewayApi -----------------------------
(***************************************************************************)
(* The gateway's REST operations that change something, for one client and *)
(* one caller: POST /v1/sessions, /v1/callers/:id/erasure,                 *)
(* /v1/clients/:id/config, /v1/webhooks/subscribe and                      *)
(* /v1/video/conversation.  A request is one run of an Express handler;    *)
(* each of its awaits is a step, so that requests interleave between them. *)
(* Every call of a handler has one of four outcomes; one whose answer is   *)
(* lost stays in flight until its effect is there.  What the requests      *)
(* share is the database (session store, config service, audit log) and    *)
(* the pals of the video service.  Authentication, roles and limits, which *)
(* refuse a request before its handler runs, are left out.                 *)
(***************************************************************************)
EXTENDS Integers, FiniteSets

CONSTANTS
  Requests,      \* the requests that may come; each is used once
  Seed, None     \* the author of a configuration that was seeded; nobody

ASSUME AuthorsAssumption ==
  Seed \notin Requests /\ None \notin Requests /\ Seed # None

VARIABLES
  kind,          \* what each request asks, chosen when it comes
  consented,     \* its ndprConsent
  pc,            \* the call its handler awaits
  snap,          \* the configuration it read
  reply,         \* the status it was answered with, 0 before
  sessions,      \* sessions, each named by the request that created it
  consents,      \* the sessions with an ndpr_consent row in audit_events
  config,        \* the client's row: who wrote its settings, who its webhook
  pals,          \* echo pals of the video service, named by their creators
  writer,        \* history: who wrote the client's row last
  gone,          \* history: sessions an erasure deleted
  met            \* history: pairs of requests that overlapped

store == <<sessions, consents, gone>>
row == <<config, writer>>
vars == <<kind, consented, pc, snap, reply, store, row, pals, met>>

Kinds == {"create", "erase", "upsert", "subscribe", "video"}
Steps == {"store", "consent", "delete", "count", "put", "read", "write",
          "pals", "makePal", "talk", "audit"}
Authors == Requests \union {Seed}
Configs == [settings : Authors, hook : Authors \union {None}]
NoConfig == [settings |-> None, hook |-> None]

TypeOK ==
  /\ kind \in [Requests -> Kinds \union {"none"}]
  /\ consented \in [Requests -> BOOLEAN]
  /\ pc \in [Requests -> Steps \union {"idle", "done"}]
  /\ snap \in [Requests -> Configs \union {NoConfig}]
  /\ \A r \in Requests : pc[r] = "write" => snap[r] \in Configs
  /\ reply \in [Requests -> {0, 200, 201, 404, 500, 503}]
  /\ sessions \subseteq Requests /\ consents \subseteq Requests
  /\ gone \subseteq Requests /\ pals \subseteq Requests
  /\ config \in Configs \union {NoConfig}
  /\ writer \in Authors
  /\ met \subseteq SUBSET Requests

\* The client was seeded, or nobody has configured it.
Init ==
  /\ kind = [r \in Requests |-> "none"]
  /\ consented = [r \in Requests |-> FALSE]
  /\ pc = [r \in Requests |-> "idle"]
  /\ snap = [r \in Requests |-> NoConfig]
  /\ reply = [r \in Requests |-> 0]
  /\ sessions = {} /\ consents = {} /\ gone = {} /\ pals = {} /\ met = {}
  /\ config \in {NoConfig, [settings |-> Seed, hook |-> None]}
  /\ writer = Seed

-----------------------------------------------------------------------------
(* Calls and answers *)

\* Answered; answered with an error status; performed but the answer lost;
\* not performed, the connection refused.
Outcomes == {"done", "refused", "lost", "down"}
performed(o) == o \in {"done", "lost"}
answered(o) == o \in {"done", "refused"}

goto(r, step) == pc' = [pc EXCEPT ![r] = step] /\ UNCHANGED reply

answer(r, status) ==
  pc' = [pc EXCEPT ![r] = "done"] /\ reply' = [reply EXCEPT ![r] = status]

\* A call in a handler's try block: what failed is answered with 500.
continue(r, o, step) ==
  IF o = "done" THEN goto(r, step) ELSE answer(r, 500)

inFlight(r) == pc[r] \notin {"idle", "done"}

\* The first call of a handler; a video request may name its pal itself.
first(k) ==
  CASE k = "create" -> {"store"}   [] k = "erase" -> {"delete"}
    [] k = "upsert" -> {"put"}     [] k = "subscribe" -> {"read"}
    [] k = "video" -> {"pals", "talk"}

Arrive(r) ==
  /\ pc[r] = "idle"
  /\ \E k \in Kinds :
       /\ kind' = [kind EXCEPT ![r] = k]
       /\ \E step \in first(k) : goto(r, step)
       /\ \E given \in (IF k = "create" THEN BOOLEAN ELSE {FALSE}) :
            consented' = [consented EXCEPT ![r] = given]
  /\ met' = met \union {{r, q} : q \in {p \in Requests : inFlight(p)}}
  /\ UNCHANGED <<snap, store, row, pals>>

success(k) == IF k = "erase" THEN 200 ELSE 201

\* The audit log is written best effort, and only then the handler answers.
Audit(r) ==
  /\ pc[r] = "audit"
  /\ answer(r, success(kind[r]))
  /\ UNCHANGED <<kind, consented, snap, store, row, pals, met>>

-----------------------------------------------------------------------------
(* Sessions and consent *)

\* The row of a session refers to its client, that of a consent to its session.
storable == config # NoConfig
recordable(r) == r \in sessions

StoreSession(r) ==
  /\ pc[r] = "store"
  /\ \E o \in Outcomes :
       /\ performed(o) => storable
       /\ sessions' = IF performed(o) THEN sessions \union {r} ELSE sessions
       /\ continue(r, o, IF consented[r] THEN "consent" ELSE "audit")
  /\ UNCHANGED <<kind, consented, snap, consents, gone, row, pals, met>>

\* Mutant: a consent that could not be recorded is only logged.
RecordConsent_BestEffort(r) ==
  /\ pc[r] = "consent"
  /\ \E o \in Outcomes :
       /\ performed(o) => recordable(r)
       /\ consents' = IF performed(o) THEN consents \union {r} ELSE consents
       /\ goto(r, "audit")
  /\ UNCHANGED <<kind, consented, snap, sessions, gone, row, pals, met>>

\* The session may have been erased by now.
RecordConsent(r) ==
  /\ pc[r] = "consent"
  /\ \E o \in Outcomes :
       /\ performed(o) => recordable(r)
       /\ consents' = IF performed(o) THEN consents \union {r} ELSE consents
       /\ continue(r, o, "audit")
  /\ UNCHANGED <<kind, consented, snap, sessions, gone, row, pals, met>>

\* The caller's sessions are deleted, and what refers to them with them.
Erase(r) ==
  /\ pc[r] = "delete"
  /\ \E o \in Outcomes :
       IF performed(o)
         THEN /\ gone' = gone \union sessions
              /\ sessions' = {} /\ consents' = {}
              /\ continue(r, o, IF sessions = {} THEN "audit" ELSE "count")
         ELSE continue(r, o, "audit") /\ UNCHANGED store
  /\ UNCHANGED <<kind, consented, snap, row, pals, met>>

\* Then its turns and actions, which went with it, and the erasure's record.
Count(r) ==
  /\ pc[r] = "count"
  /\ \E o \in Outcomes : continue(r, o, "audit")
  /\ UNCHANGED <<kind, consented, snap, store, row, pals, met>>

-----------------------------------------------------------------------------
(* The client's configuration *)

\* The gateway passes the body on and looks at the status of the answer.
upserted(o) == IF o = "done" THEN 201 ELSE 500

\* One statement inserts the row or replaces all of it: what the body does
\* not say gets its default, and a body without a webhook removes it.
Upsert(r) ==
  /\ pc[r] = "put"
  /\ \E o \in Outcomes, hook \in {r, None} :
       /\ config' = IF performed(o)
                      THEN [settings |-> r, hook |-> hook] ELSE config
       /\ writer' = IF performed(o) THEN r ELSE writer
       /\ answer(r, upserted(o))
  /\ UNCHANGED <<kind, consented, snap, store, pals, met>>

\* Mutant: a client that is not found is subscribed as well.
ReadConfig_Unchecked(r) ==
  /\ pc[r] = "read"
  /\ \E o \in Outcomes :
       /\ IF answered(o) THEN goto(r, "write") ELSE answer(r, 500)
       /\ snap' = [snap EXCEPT ![r] = config]
  /\ UNCHANGED <<kind, consented, store, row, pals, met>>

\* Whatever error status the config service answers, the reply is 404.
ReadConfig(r) ==
  /\ pc[r] = "read"
  /\ \E o \in Outcomes :
       CASE o = "done" /\ config # NoConfig ->
              goto(r, "write") /\ snap' = [snap EXCEPT ![r] = config]
         [] answered(o) /\ (o = "done" => config = NoConfig) ->
              answer(r, 404) /\ UNCHANGED snap
         [] OTHER -> answer(r, 500) /\ UNCHANGED snap
  /\ UNCHANGED <<kind, consented, store, row, pals, met>>

\* Mutant: only the two fields are sent, without the configuration read.
WriteConfig_FieldsOnly(r) ==
  /\ pc[r] = "write"
  /\ \E o \in Outcomes :
       /\ config' = IF performed(o) THEN [settings |-> r, hook |-> r]
                    ELSE config
       /\ writer' = IF performed(o) THEN r ELSE writer
       /\ IF answered(o) THEN goto(r, "audit") ELSE answer(r, 500)
  /\ UNCHANGED <<kind, consented, snap, store, pals, met>>

\* All of what was read is written back with the new webhook.  The status of
\* the answer is not looked at: a refused write is a success.
WriteConfig(r) ==
  /\ pc[r] = "write"
  /\ \E o \in Outcomes :
       /\ config' = IF performed(o) THEN [snap[r] EXCEPT !.hook = r]
                    ELSE config
       /\ writer' = IF performed(o) THEN r ELSE writer
       /\ IF answered(o) THEN goto(r, "audit") ELSE answer(r, 500)
  /\ UNCHANGED <<kind, consented, snap, store, pals, met>>

-----------------------------------------------------------------------------
(* The video conversation *)

\* A failure of the video service is 503, one of the connection to it 500.
videoStatus(o) == IF o = "refused" THEN 503 ELSE 500

\* Mutant: a list that could not be read counts as empty.
ListPals_Tolerant(r) ==
  /\ pc[r] = "pals"
  /\ \E o \in Outcomes :
       goto(r, IF o = "done" /\ pals # {} THEN "talk" ELSE "makePal")
  /\ UNCHANGED <<kind, consented, snap, store, row, pals, met>>

ListPals(r) ==
  /\ pc[r] = "pals"
  /\ \E o \in Outcomes :
       IF o = "done" THEN goto(r, IF pals = {} THEN "makePal" ELSE "talk")
       ELSE answer(r, videoStatus(o))
  /\ UNCHANGED <<kind, consented, snap, store, row, pals, met>>

MakePal(r) ==
  /\ pc[r] = "makePal"
  /\ \E o \in Outcomes :
       /\ pals' = IF performed(o) THEN pals \union {r} ELSE pals
       /\ IF o = "done" THEN goto(r, "talk") ELSE answer(r, videoStatus(o))
  /\ UNCHANGED <<kind, consented, snap, store, row, met>>

\* The conversation itself is the subject of module WidgetCall.
Talk(r) ==
  /\ pc[r] = "talk"
  /\ \E o \in Outcomes :
       IF o = "done" THEN goto(r, "audit") ELSE answer(r, videoStatus(o))
  /\ UNCHANGED <<kind, consented, snap, store, row, pals, met>>

-----------------------------------------------------------------------------
Next ==
  \E r \in Requests :
    \/ Arrive(r) \/ Audit(r)
    \/ StoreSession(r) \/ RecordConsent(r) \/ Erase(r) \/ Count(r)
    \/ Upsert(r) \/ ReadConfig(r) \/ WriteConfig(r)
    \/ ListPals(r) \/ MakePal(r) \/ Talk(r)

Spec == Init /\ [][Next]_vars

-----------------------------------------------------------------------------
(* Properties *)

(***************************************************************************)
(* A caller who is told that the call was created finds its session, with  *)
(* the consent on record if and only if it was given, until an erasure     *)
(* deletes both; and no consent outlives its session, even when the        *)
(* erasure comes between the two inserts of the creation.                  *)
(***************************************************************************)
CreatedIsOnRecord ==
  /\ \A r \in Requests :
       kind[r] = "create" /\ reply[r] = 201 =>
         \/ r \in gone
         \/ r \in sessions /\ (r \in consents <=> consented[r])
  /\ consents \subseteq sessions
  /\ sessions \cap gone = {}

(***************************************************************************)
(* A subscription reads the configuration and writes all of it back.  The  *)
(* settings it undoes are only ones written, or written back, by a request *)
(* that overlapped it: an update that was over before the subscription     *)
(* began is lost to it only if another subscription undid that one first.  *)
(***************************************************************************)
NoUpdateLost ==
  [][\A r \in Requests :
       pc[r] = "write" /\ pc'[r] # "write" =>
         \/ config'.settings = config.settings
         \/ {r, writer} \in met]_vars

(***************************************************************************)
(* getOrCreateEchoPal makes a second pal only for requests that overlap:   *)
(* whoever comes when the pal of a failed or unanswered request exists     *)
(* finds and uses it.                                                      *)
(***************************************************************************)
OneEchoPal == \A p, q \in pals : p = q \/ {p, q} \in met
=============================================================================
