---------------------------- MODULE PaymentIntents ----------------------------
(***************************************************************************)
(* Creating payment intents: the gateway's create_payment_intent over the  *)
(* SQLite store's create_or_get, called by agents that lose answers and    *)
(* retry under the idempotency key of their operation, while settlement    *)
(* moves the payments on.                                                  *)
(*                                                                         *)
(* create_or_get is a SELECT and then an upsert, each its own transaction;  *)
(* the table's UNIQUE constraint on the key decides between two creators.  *)
(* Requests without a key, which skip the SELECT, are left out.            *)
(***************************************************************************)
EXTENDS Naturals, FiniteSets

CONSTANTS
  Operation,      \* business operations of agents, one payment wanted for each
  Key,            \* idempotency keys
  KeyOf,          \* the key each operation is sent under
  OwnId,          \* the payment id an agent chooses for its operation, or None
  Body,           \* everything else a payment intent says
  BodyOf,         \* what each operation wants
  PaymentId,      \* bound: the ids make_payment_id hands out
  Handler,        \* threads or processes that serve the gateway
  Window,         \* how far ahead of the clock a request's deadline lies
  KeepsDeadline,  \* whether a retry repeats the deadline of the first try
  Failures,       \* whether settlement may fail
  MaxTime,        \* bound: the clock stops here
  MaxTries,       \* bound: how often an operation's creation is sent
  None            \* no payment, no row, no request

ASSUME IntentAssumption ==
  /\ KeyOf \in [Operation -> Key]
  /\ OwnId \in [Operation -> PaymentId \cup {None}]
  /\ \A a, b \in Operation : OwnId[a] = OwnId[b] => a = b \/ OwnId[a] = None
  /\ BodyOf \in [Operation -> Body]
  /\ Window \in Nat \ {0} /\ MaxTime \in Nat /\ MaxTries \in Nat
  /\ KeepsDeadline \in BOOLEAN /\ Failures \in BOOLEAN
  /\ None \notin PaymentId

VARIABLES
  now,      \* the clock of the agents and of the gateway
  rows,     \* the table micropay_payments
  request,  \* what each handler is working on
  tries,    \* how often each operation's creation has been sent
  first,    \* the deadline of each operation's first try
  intent,   \* the payment an agent knows to be its operation's
  answers   \* history: the gateway's answers to creation requests

vars == <<now, rows, request, tries, first, intent, answers>>

Time == 0 .. MaxTime + Window

\* error_retryable is "none" in a record that no failure has touched.
Row ==
  [key : Key, body : Body, deadline : Time,
   status : {"authorized", "submitted", "settled", "failed", "expired"},
   retryable : {"none", "true", "false"}]

Request ==
  [op : Operation, deadline : Time, id : PaymentId, copy : Row \cup {None},
   step : {"select", "insert", "reselect", "touch"}]

ASSUME NoneAssumption == None \notin Row /\ None \notin Request

Answer ==
  [op : Operation, deadline : Time, id : PaymentId, accepted : BOOLEAN]

IdsOf(key) == {id \in PaymentId : rows[id] # None /\ rows[id].key = key}

\* make_payment_id never returns an id twice, nor one that an agent chose.
FreshIds ==
  {id \in PaymentId :
     /\ rows[id] = None
     /\ \A h \in Handler : request[h] # None => request[h].id # id
     /\ \A o \in Operation : OwnId[o] # id}

-----------------------------------------------------------------------------

Init ==
  /\ now = 0
  /\ rows = [id \in PaymentId |-> None]
  /\ request = [h \in Handler |-> None]
  /\ tries = [o \in Operation |-> 0]
  /\ first = [o \in Operation |-> 0]
  /\ intent = [o \in Operation |-> None]
  /\ answers = {}

Tick ==
  /\ now < MaxTime
  /\ now' = now + 1
  /\ UNCHANGED <<rows, request, tries, first, intent, answers>>

\* An agent that knows of no payment for its operation asks for one.  Earlier
\* tries may still be on their way.
SendCreate(o, h) ==
  LET deadline == IF KeepsDeadline /\ tries[o] > 0 THEN first[o] ELSE now + Window IN
  /\ intent[o] = None
  /\ tries[o] < MaxTries
  /\ request[h] = None
  /\ now < deadline
  /\ \E id \in IF OwnId[o] # None THEN {OwnId[o]} ELSE FreshIds :
       request' = [request EXCEPT ![h] =
         [op |-> o, deadline |-> deadline, id |-> id, copy |-> None,
          step |-> "select"]]
  /\ tries' = [tries EXCEPT ![o] = @ + 1]
  /\ first' = [first EXCEPT ![o] = IF tries[o] = 0 THEN deadline ELSE @]
  /\ UNCHANGED <<now, rows, intent, answers>>

\* Mutation of Wanted: the status the settlement code reads like "authorized".
WantedPending(r) ==
  [key |-> KeyOf[r.op], body |-> BodyOf[r.op], deadline |-> r.deadline,
   status |-> "pending", retryable |-> "none"]

\* The record a request would store.
Wanted(r) ==
  [key |-> KeyOf[r.op], body |-> BodyOf[r.op], deadline |-> r.deadline,
   status |-> "authorized", retryable |-> "none"]

\* _idempotency_payload leaves out the status and most of what settlement
\* writes; error_retryable stays in.
SamePayload(row, wanted) ==
  [row EXCEPT !.status = "authorized"] = wanted

\* The gateway answers; the agent may never hear it.
AnswerWith(h, id, accepted) ==
  LET r == request[h] IN
  /\ answers' = answers \cup
       {[op |-> r.op, deadline |-> r.deadline, id |-> id, accepted |-> accepted]}
  /\ \/ accepted /\ intent' = [intent EXCEPT ![r.op] = id]
     \/ UNCHANGED intent

\* The payment found under the key, or idempotency_conflict.
UseExisting(h, id) ==
  \/ /\ SamePayload(rows[id], Wanted(request[h]))
     /\ request' = [request EXCEPT ![h] =
          [@ EXCEPT !.step = "touch", !.id = id, !.copy = rows[id]]]
     /\ UNCHANGED <<intent, answers>>
  \/ /\ ~SamePayload(rows[id], Wanted(request[h]))
     /\ request' = [request EXCEPT ![h] = None]
     /\ AnswerWith(h, id, FALSE)

Select(h) ==
  /\ request[h] # None
  /\ request[h].step = "select"
  /\ \/ /\ IdsOf(KeyOf[request[h].op]) = {}
        /\ request' = [request EXCEPT ![h] = [@ EXCEPT !.step = "insert"]]
        /\ UNCHANGED <<intent, answers>>
     \/ \E id \in IdsOf(KeyOf[request[h].op]) : UseExisting(h, id)
  /\ UNCHANGED <<now, rows, tries, first>>

\* Mutation of Insert: the key column is not UNIQUE.
InsertAnyway(h) ==
  LET r == request[h] IN
  /\ r # None
  /\ r.step = "insert"
  /\ rows' = [rows EXCEPT ![r.id] = Wanted(r)]
  /\ request' = [request EXCEPT ![h] =
       [r EXCEPT !.step = "touch", !.copy = Wanted(r)]]
  /\ UNCHANGED <<now, tries, first, intent, answers>>

\* Mutation of Insert: INSERT OR REPLACE, which deletes the row in the way.
InsertOrReplace(h) ==
  LET r == request[h] IN
  /\ r # None
  /\ r.step = "insert"
  /\ rows' = [id \in PaymentId |->
                CASE id = r.id -> Wanted(r)
                  [] id \in IdsOf(KeyOf[r.op]) \ {r.id} -> None
                  [] OTHER -> rows[id]]
  /\ request' = [request EXCEPT ![h] =
       [r EXCEPT !.step = "touch", !.copy = Wanted(r)]]
  /\ UNCHANGED <<now, tries, first, intent, answers>>

\* The upsert fails when another creator has stored the key, for a payment with
\* another id, in between.  A row with the same id is overwritten.
Insert(h) ==
  LET r == request[h]
      KeyTaken == IdsOf(KeyOf[r.op]) \ {r.id} # {} IN
  /\ r # None
  /\ r.step = "insert"
  /\ \/ /\ ~KeyTaken
        /\ rows' = [rows EXCEPT ![r.id] = Wanted(r)]
        /\ request' = [request EXCEPT ![h] =
             [r EXCEPT !.step = "touch", !.copy = Wanted(r)]]
     \/ /\ KeyTaken
        /\ request' = [request EXCEPT ![h] = [r EXCEPT !.step = "reselect"]]
        /\ UNCHANGED rows
  /\ UNCHANGED <<now, tries, first, intent, answers>>

Reselect(h) ==
  /\ request[h] # None
  /\ request[h].step = "reselect"
  /\ \E id \in IdsOf(KeyOf[request[h].op]) : UseExisting(h, id)
  /\ UNCHANGED <<now, rows, tries, first>>

\* _touch_payment on the record create_or_get returned, and the answer.
Touch(h) ==
  LET r == request[h] IN
  /\ r # None
  /\ r.step = "touch"
  /\ rows' = [rows EXCEPT ![r.id] =
       IF r.copy.status = "authorized" /\ r.copy.deadline < now
       THEN [r.copy EXCEPT !.status = "expired", !.retryable = "false"] ELSE @]
  /\ AnswerWith(h, r.id, TRUE)
  /\ request' = [request EXCEPT ![h] = None]
  /\ UNCHANGED <<now, tries, first>>

\* A handler dies with its request.
Crash(h) ==
  /\ request[h] # None
  /\ request' = [request EXCEPT ![h] = None]
  /\ UNCHANGED <<now, rows, tries, first, intent, answers>>

\* The agent looks for its payment by key, as the recovery rules ask.
Recover(o) ==
  /\ intent[o] = None
  /\ tries[o] > 0
  /\ \E id \in IdsOf(KeyOf[o]) : intent' = [intent EXCEPT ![o] = id]
  /\ UNCHANGED <<now, rows, request, tries, first, answers>>

\* What the settlement service writes into a record (see SettlementService).
Progress(id, from, to, retryable) ==
  /\ rows[id] # None
  /\ rows[id].status = from
  /\ rows' = [rows EXCEPT ![id] = [@ EXCEPT !.status = to, !.retryable = retryable]]
  /\ UNCHANGED <<now, request, tries, first, intent, answers>>

Settlement(id) ==
  \/ Progress(id, "authorized", "submitted", "none")
  \/ Progress(id, "submitted", "settled", "none")
  \/ /\ Failures
     /\ \/ Progress(id, "authorized", "failed", "true")
        \/ Progress(id, "submitted", "submitted", "true")
        \/ Progress(id, "submitted", "failed", "false")

Next ==
  \/ Tick
  \/ \E o \in Operation : Recover(o) \/ \E h \in Handler : SendCreate(o, h)
  \/ \E h \in Handler : Select(h) \/ Insert(h) \/ Reselect(h) \/ Touch(h) \/ Crash(h)
  \/ \E id \in PaymentId : Settlement(id)

Spec == Init /\ [][Next]_vars

-----------------------------------------------------------------------------

\* Every variable stays in its set.
TypeOK ==
  /\ now \in 0 .. MaxTime
  /\ rows \in [PaymentId -> Row \cup {None}]
  /\ request \in [Handler -> Request \cup {None}]
  /\ tries \in [Operation -> 0 .. MaxTries]
  /\ first \in [Operation -> Time]
  /\ intent \in [Operation -> PaymentId \cup {None}]
  /\ answers \subseteq Answer

Accepted(a) == a \in answers /\ a.accepted

\* "idempotency_key must map to exactly one logical payment intent"
\* (spec/PROTOCOL_REFERENCE.md:128): whatever creators race, retries cross and
\* answers get lost, everyone who was given a payment for a key was given the
\* same one (create_or_get).
OneIntentPerKey ==
  \A a, b \in answers :
    /\ Accepted(a) /\ Accepted(b)
    /\ KeyOf[a.op] = KeyOf[b.op]
    => a.id = b.id

\* What the table holds, and what the accepting answers said.
Held ==
  {[key |-> rows[id].key, id |-> id, body |-> rows[id].body] :
     id \in {id \in PaymentId : rows[id] # None}}

Told ==
  {[key |-> KeyOf[a.op], id |-> a.id, body |-> BodyOf[a.op]] :
     a \in {a \in answers : a.accepted}}

Register == INSTANCE IdempotencyRegister WITH held <- Held, told <- Told

\* The table and the answers implement the register of idempotency keys: a payment
\* is stored once for its key, no upsert and no write of an old copy replaces it,
\* and every agent is told of the payment the table holds for its key and body.
ImplementsRegister == Register!Spec

-----------------------------------------------------------------------------
(* A statement of a document.                                              *)

\* "settled: terminal success state" (spec/PROTOCOL_REFERENCE.md:90): what was
\* settled is not taken back by a retried creation (create_or_get, _touch_payment).
RetriesKeepSettled ==
  [][\A id \in PaymentId :
       rows[id] # None /\ rows[id].status = "settled"
         => rows'[id] # None /\ rows'[id].status = "settled"]_vars
=============================================================================
