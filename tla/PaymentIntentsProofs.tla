------------------------- MODULE PaymentIntentsProofs -------------------------
(***************************************************************************)
(* Theorems about creating payment intents, for any operations, keys,      *)
(* bodies, handlers, retries and clocks.                                   *)
(***************************************************************************)
EXTENDS PaymentIntents, TLAPS

\* The row of id is what operation o asked for.
Fits(id, o) ==
  /\ rows[id] # None
  /\ rows[id].key = KeyOf[o]
  /\ rows[id].body = BodyOf[o]

Pending(h) == request[h] # None /\ request[h].step # "touch"

\* The table's UNIQUE constraint.
KeysUnique ==
  \A i, j \in PaymentId :
    rows[i] # None /\ rows[j] # None /\ rows[i].key = rows[j].key => i = j

\* The id a request would store its payment under belongs to its operation.
PendingOwn ==
  \A h \in Handler : Pending(h) =>
    /\ \A o \in Operation : OwnId[o] = request[h].id => o = request[h].op
    /\ \A g \in Handler :
         Pending(g) /\ request[g].id = request[h].id => request[g].op = request[h].op
    /\ rows[request[h].id] # None => Fits(request[h].id, request[h].op)

OwnFits ==
  \A o \in Operation :
    OwnId[o] # None /\ rows[OwnId[o]] # None => Fits(OwnId[o], o)

\* A request that found or stored its payment holds a copy of what it wants.
HeldFits ==
  \A h \in Handler : request[h] # None /\ request[h].step = "touch" =>
    /\ Fits(request[h].id, request[h].op)
    /\ request[h].copy # None
    /\ request[h].copy.key = KeyOf[request[h].op]
    /\ request[h].copy.body = BodyOf[request[h].op]

AnsweredFits == \A a \in answers : a.accepted => Fits(a.id, a.op)

IInv ==
  TypeOK /\ KeysUnique /\ PendingOwn /\ OwnFits /\ HeldFits /\ AnsweredFits

-----------------------------------------------------------------------------

LEMMA NotNone ==
  /\ \A row \in Row : row # None
  /\ \A r \in Request : r # None
  BY NoneAssumption

\* What TypeOK says of a handler at work.
LEMMA RequestType ==
  ASSUME TypeOK, NEW h \in Handler, request[h] # None
  PROVE  /\ request[h] \in Request
         /\ request[h].op \in Operation
         /\ request[h].id \in PaymentId
         /\ request[h].deadline \in Time
         /\ request[h].copy \in Row \cup {None}
  BY DEF TypeOK, Request

LEMMA WantedType ==
  ASSUME NEW r \in Request
  PROVE  /\ Wanted(r) \in Row
         /\ Wanted(r).key = KeyOf[r.op]
         /\ Wanted(r).body = BodyOf[r.op]
  BY IntentAssumption DEF Wanted, Row, Request

LEMMA SameFits ==
  ASSUME NEW row \in Row, NEW r \in Request, SamePayload(row, Wanted(r))
  PROVE  row.key = KeyOf[r.op] /\ row.body = BodyOf[r.op]
<1>1. [row EXCEPT !.status = "authorized"].key = row.key
  BY DEF Row
<1>2. [row EXCEPT !.status = "authorized"].body = row.body
  BY DEF Row
<1>3. QED
  BY <1>1, <1>2, WantedType DEF SamePayload

\* The rows keep their keys and bodies, and none is deleted.
RowsStay ==
  \A i \in PaymentId :
    /\ rows[i] = None <=> rows'[i] = None
    /\ rows[i] # None => rows'[i].key = rows[i].key /\ rows'[i].body = rows[i].body

LEMMA FitsStay ==
  ASSUME RowsStay
  PROVE  \A i \in PaymentId, o \in Operation : Fits(i, o) <=> Fits(i, o)'
  BY DEF RowsStay, Fits

\* A step that stores nothing new and answers, drops or leaves requests.
LEMMA QuietStep ==
  ASSUME IInv, TypeOK', RowsStay,
         \A g \in Handler : request'[g] = request[g] \/ request'[g] = None,
         \A a \in answers' : a \in answers \/ ~a.accepted \/ Fits(a.id, a.op)
  PROVE  IInv'
<1>1. \A g \in Handler : request'[g] # None => request'[g] = request[g]
  OBVIOUS
<1>2. \A g \in Handler : request[g] # None =>
        request[g].id \in PaymentId /\ request[g].op \in Operation
  BY RequestType DEF IInv
<1>3. KeysUnique'
  BY DEF IInv, KeysUnique, RowsStay
<1>4. PendingOwn'
  BY <1>1, <1>2, FitsStay DEF IInv, PendingOwn, Pending, RowsStay
<1>5. OwnFits'
  BY FitsStay, IntentAssumption DEF IInv, OwnFits, RowsStay
<1>6. HeldFits'
  BY <1>1, <1>2, FitsStay DEF IInv, HeldFits
<1>7. AnsweredFits'
  <2>1. \A a \in answers' : a.id \in PaymentId /\ a.op \in Operation
    BY DEF TypeOK, Answer
  <2>2. QED
    BY <2>1, FitsStay DEF IInv, AnsweredFits
<1>8. QED
  BY <1>3, <1>4, <1>5, <1>6, <1>7 DEF IInv

\* A step that changes one request and nothing that is stored or answered.
LEMMA RequestStep ==
  ASSUME IInv, TypeOK', NEW h \in Handler, NEW r \in Request,
         UNCHANGED <<rows, answers>>,
         request' = [request EXCEPT ![h] = r],
         r.step = "touch" =>
           /\ Fits(r.id, r.op)
           /\ r.copy # None
           /\ r.copy.key = KeyOf[r.op] /\ r.copy.body = BodyOf[r.op],
         r.step # "touch" =>
           /\ \A o \in Operation : OwnId[o] = r.id => o = r.op
           /\ \A g \in Handler \ {h} :
                Pending(g) /\ request[g].id = r.id => request[g].op = r.op
           /\ rows[r.id] # None => Fits(r.id, r.op)
  PROVE  IInv'
<1>1. request'[h] = r /\ \A g \in Handler \ {h} : request'[g] = request[g]
  BY DEF IInv, TypeOK
<1>2. \A i, o : Fits(i, o)' <=> Fits(i, o)
  BY DEF Fits
<1>3. KeysUnique'
  BY DEF IInv, KeysUnique
<1>4. PendingOwn'
  BY <1>1, <1>2 DEF IInv, PendingOwn, Pending
<1>5. OwnFits'
  BY <1>2 DEF IInv, OwnFits
<1>6. HeldFits'
  BY <1>1, <1>2 DEF IInv, HeldFits
<1>7. AnsweredFits'
  BY <1>2 DEF IInv, AnsweredFits
<1>8. QED
  BY <1>3, <1>4, <1>5, <1>6, <1>7 DEF IInv

-----------------------------------------------------------------------------
(* One lemma per action.                                                   *)

LEMMA InitIInv == Init => IInv
<1> SUFFICES ASSUME Init PROVE IInv
  OBVIOUS
<1>1. 0 \in Time /\ 0 \in 0 .. MaxTime /\ 0 \in 0 .. MaxTries
  BY IntentAssumption DEF Time
<1>2. TypeOK
  BY <1>1 DEF Init, TypeOK
<1>3. KeysUnique /\ PendingOwn /\ HeldFits /\ AnsweredFits
  BY DEF Init, KeysUnique, PendingOwn, Pending, HeldFits, AnsweredFits
<1>4. OwnFits
  BY IntentAssumption DEF Init, OwnFits
<1>5. QED
  BY <1>2, <1>3, <1>4 DEF IInv

\* An answer is well typed and, when it accepts, tells of a payment that fits.
LEMMA AnswerStep ==
  ASSUME TypeOK, NEW h \in Handler, request[h] # None,
         NEW id \in PaymentId, NEW accepted \in BOOLEAN,
         AnswerWith(h, id, accepted)
  PROVE  /\ answers' \subseteq Answer
         /\ intent' \in [Operation -> PaymentId \cup {None}]
         /\ \A a \in answers' :
              \/ a \in answers
              \/ a.op = request[h].op /\ a.id = id /\ a.accepted = accepted
<1> DEFINE a == [op |-> request[h].op, deadline |-> request[h].deadline,
                 id |-> id, accepted |-> accepted]
<1>1. a \in Answer
  BY RequestType DEF Answer
<1>2. answers' = answers \cup {a}
  BY DEF AnswerWith
<1>3. intent' = [intent EXCEPT ![request[h].op] = id] \/ intent' = intent
  BY DEF AnswerWith
<1>4. intent' \in [Operation -> PaymentId \cup {None}]
  BY <1>3, RequestType DEF TypeOK
<1>5. QED
  BY <1>1, <1>2, <1>4 DEF TypeOK

LEMMA SendCreateStep ==
  ASSUME IInv, NEW o \in Operation, NEW h \in Handler, SendCreate(o, h)
  PROVE  IInv'
<1> DEFINE deadline == IF KeepsDeadline /\ tries[o] > 0 THEN first[o]
                       ELSE now + Window
<1> USE DEF IInv
<1>1. PICK id \in IF OwnId[o] # None THEN {OwnId[o]} ELSE FreshIds :
        request' = [request EXCEPT ![h] =
          [op |-> o, deadline |-> deadline, id |-> id, copy |-> None,
           step |-> "select"]]
  BY DEF SendCreate
<1> DEFINE r == [op |-> o, deadline |-> deadline, id |-> id, copy |-> None,
                 step |-> "select"]
<1>2. id \in PaymentId
  BY <1>1, IntentAssumption DEF FreshIds
<1>3. deadline \in Time
  BY IntentAssumption DEF TypeOK, Time
<1>4. r \in Request
  BY <1>2, <1>3 DEF Request
<1>5. TypeOK'
  <2>1. request' \in [Handler -> Request \cup {None}]
    BY <1>1, <1>4 DEF TypeOK
  <2>2. tries' \in [Operation -> 0 .. MaxTries]
    BY IntentAssumption DEF SendCreate, TypeOK
  <2>3. first' \in [Operation -> Time]
    BY <1>3 DEF SendCreate, TypeOK
  <2>4. QED
    BY <2>1, <2>2, <2>3 DEF SendCreate, TypeOK
<1>6. request[h] = None
  BY DEF SendCreate
<1>7. CASE OwnId[o] # None
  <2>1. id = OwnId[o]
    BY <1>1, <1>7
  <2>2. \A q \in Operation : OwnId[q] = id => q = o
    BY <2>1, <1>7, IntentAssumption
  <2>3. \A g \in Handler \ {h} :
          Pending(g) /\ request[g].id = id => request[g].op = o
    BY <2>1 DEF PendingOwn
  <2>4. rows[id] # None => Fits(id, o)
    BY <2>1, <1>7 DEF OwnFits
  <2>5. QED
    BY <1>1, <1>4, <1>5, <2>2, <2>3, <2>4, RequestStep DEF SendCreate
<1>8. CASE OwnId[o] = None
  <2>1. /\ rows[id] = None
        /\ \A g \in Handler : request[g] # None => request[g].id # id
        /\ \A q \in Operation : OwnId[q] # id
    BY <1>1, <1>8 DEF FreshIds
  <2>2. QED
    BY <1>1, <1>4, <1>5, <2>1, RequestStep DEF SendCreate, Pending
<1>9. QED
  BY <1>7, <1>8

\* Both lookups of create_or_get end here when they find a payment.
LEMMA UseExistingStep ==
  ASSUME IInv, NEW h \in Handler, request[h] # None,
         NEW id \in IdsOf(KeyOf[request[h].op]), UseExisting(h, id),
         UNCHANGED <<now, rows, tries, first>>
  PROVE  IInv'
<1> USE DEF IInv
<1>1. id \in PaymentId /\ rows[id] # None
  BY DEF IdsOf
<1>2. rows[id] \in Row
  BY <1>1 DEF TypeOK
<1>3. CASE /\ SamePayload(rows[id], Wanted(request[h]))
           /\ request' = [request EXCEPT ![h] =
                [@ EXCEPT !.step = "touch", !.id = id, !.copy = rows[id]]]
           /\ UNCHANGED <<intent, answers>>
  <2> DEFINE r == [request[h] EXCEPT !.step = "touch", !.id = id,
                                     !.copy = rows[id]]
  <2>1. request[h] \in Request
    BY RequestType
  <2>2. /\ r \in Request /\ r.op = request[h].op /\ r.id = id
        /\ r.copy = rows[id] /\ r.step = "touch"
    BY <1>1, <1>2, <2>1 DEF Request
  <2>3. request' = [request EXCEPT ![h] = r]
    BY <1>3
  <2> HIDE DEF r
  <2>4. TypeOK'
    BY <1>3, <2>2, <2>3 DEF TypeOK
  <2>5. rows[id].key = KeyOf[r.op] /\ rows[id].body = BodyOf[r.op]
    BY <1>2, <1>3, <2>1, <2>2, SameFits
  <2>6. Fits(r.id, r.op)
    BY <1>1, <2>2, <2>5 DEF Fits
  <2>7. r.copy # None /\ r.copy.key = KeyOf[r.op] /\ r.copy.body = BodyOf[r.op]
    BY <1>1, <2>2, <2>5
  <2>8. r \in Request /\ r.step = "touch" /\ UNCHANGED <<rows, answers>>
    BY <1>3, <2>2
  <2> HIDE DEF IInv
  <2>9. QED
    BY <2>3, <2>4, <2>6, <2>7, <2>8, RequestStep
<1>4. CASE /\ request' = [request EXCEPT ![h] = None]
           /\ AnswerWith(h, id, FALSE)
  <2>1. /\ answers' \subseteq Answer
        /\ intent' \in [Operation -> PaymentId \cup {None}]
        /\ \A a \in answers' : a \in answers \/ a.accepted = FALSE
    BY <1>1, <1>4, AnswerStep
  <2>2. TypeOK'
    BY <1>4, <2>1 DEF TypeOK
  <2>3. \A g \in Handler : request'[g] = request[g] \/ request'[g] = None
    BY <1>4 DEF TypeOK
  <2>4. RowsStay
    BY DEF RowsStay
  <2>5. QED
    BY <2>1, <2>2, <2>3, <2>4, QuietStep
<1>5. QED
  BY <1>3, <1>4 DEF UseExisting

\* A request that goes on with its own payment to "insert" or "reselect".
LEMMA PendingStep ==
  ASSUME IInv, NEW h \in Handler, Pending(h),
         NEW step \in {"insert", "reselect"},
         request' = [request EXCEPT ![h] = [@ EXCEPT !.step = step]],
         UNCHANGED <<now, rows, tries, first, intent, answers>>
  PROVE  IInv'
<1> DEFINE r == [request[h] EXCEPT !.step = step]
<1>1. request[h] \in Request
  BY RequestType DEF IInv, Pending
<1>2. /\ r \in Request /\ r.op = request[h].op /\ r.id = request[h].id
      /\ r.step # "touch"
  BY <1>1 DEF Request
<1>3. request' = [request EXCEPT ![h] = r]
  OBVIOUS
<1> HIDE DEF r
<1>4. TypeOK'
  BY <1>2, <1>3 DEF IInv, TypeOK
<1>5. /\ \A o \in Operation : OwnId[o] = r.id => o = r.op
      /\ \A g \in Handler \ {h} :
           Pending(g) /\ request[g].id = r.id => request[g].op = r.op
      /\ rows[r.id] # None => Fits(r.id, r.op)
  BY <1>2 DEF IInv, PendingOwn
<1>6. UNCHANGED <<rows, answers>>
  OBVIOUS
<1>7. QED
  BY <1>2, <1>3, <1>4, <1>5, <1>6, RequestStep

LEMMA SelectStep ==
  ASSUME IInv, NEW h \in Handler, Select(h)
  PROVE  IInv'
<1>1. Pending(h)
  BY DEF Select, Pending
<1>2. CASE /\ request' = [request EXCEPT ![h] = [@ EXCEPT !.step = "insert"]]
           /\ UNCHANGED <<intent, answers>>
  BY <1>1, <1>2, PendingStep DEF Select
<1>3. CASE \E id \in IdsOf(KeyOf[request[h].op]) : UseExisting(h, id)
  BY <1>3, UseExistingStep DEF Select
<1>4. QED
  BY <1>2, <1>3 DEF Select

LEMMA ReselectStep ==
  ASSUME IInv, NEW h \in Handler, Reselect(h)
  PROVE  IInv'
  BY UseExistingStep DEF Reselect

\* The new row is the only one under its key; a row it overwrites was stored by
\* an earlier try of the same operation.
LEMMA InsertStep ==
  ASSUME IInv, NEW h \in Handler, Insert(h)
  PROVE  IInv'
<1>1. request[h] \in Request /\ Pending(h)
  BY RequestType DEF IInv, Insert, Pending
<1> PICK id \in PaymentId, op \in Operation : request[h].id = id /\ request[h].op = op
  BY <1>1, RequestType DEF IInv, Pending
<1> DEFINE row == Wanted(request[h])
           r == [request[h] EXCEPT !.step = "touch", !.copy = row]
<1>2. row \in Row /\ row.key = KeyOf[op] /\ row.body = BodyOf[op] /\ row # None
  BY <1>1, WantedType, NotNone
<1>3. /\ r \in Request /\ r.op = op /\ r.id = id /\ r.copy = row
      /\ r.step = "touch"
  BY <1>1, <1>2 DEF Request
<1>4. CASE request' = [request EXCEPT ![h] = [request[h] EXCEPT !.step = "reselect"]]
           /\ UNCHANGED rows
  BY <1>1, <1>4, PendingStep DEF Insert
<1>5. CASE /\ IdsOf(KeyOf[op]) \ {id} = {}
           /\ rows' = [rows EXCEPT ![id] = row]
           /\ request' = [request EXCEPT ![h] = r]
  <2> HIDE DEF row, r
  <2>1. UNCHANGED <<now, tries, first, intent, answers>>
    BY DEF Insert
  <2>2. TypeOK'
    BY <1>1, <1>2, <1>3, <1>5, <2>1 DEF IInv, TypeOK
  <2>3. request'[h] = r /\ \A g \in Handler \ {h} : request'[g] = request[g]
    BY <1>5 DEF IInv, TypeOK
  <2>4. rows'[id] = row /\ \A i \in PaymentId \ {id} : rows'[i] = rows[i]
    BY <1>1, <1>5 DEF IInv, TypeOK
  <2>5. rows[id] # None => rows[id].key = row.key /\ rows[id].body = row.body
    BY <1>1, <1>2 DEF IInv, PendingOwn, Fits
  <2>6. \A i \in PaymentId, o \in Operation : Fits(i, o) => Fits(i, o)'
    BY <1>2, <2>4, <2>5 DEF Fits
  <2>7. Fits(id, op)'
    BY <1>2, <2>4 DEF Fits
  <2>8. KeysUnique'
    <3>1. \A i \in PaymentId \ {id} : rows[i] # None => rows[i].key # row.key
      BY <1>2, <1>5 DEF IdsOf
    <3>2. QED
      BY <2>4, <3>1 DEF IInv, KeysUnique
  <2>9. PendingOwn'
    <3> SUFFICES ASSUME NEW g \in Handler, Pending(g)'
                 PROVE  /\ \A o \in Operation :
                             OwnId[o] = request'[g].id => o = request'[g].op
                        /\ \A k \in Handler :
                             Pending(k)' /\ request'[k].id = request'[g].id
                               => request'[k].op = request'[g].op
                        /\ rows'[request'[g].id] # None =>
                             Fits(request[g].id, request[g].op)'
      BY DEF PendingOwn
    <3>1. g # h
      BY <1>3, <2>3 DEF Pending
    <3>2. request'[g] = request[g] /\ Pending(g)
      BY <2>3, <3>1 DEF Pending
    <3>3. \A k \in Handler : Pending(k)' => Pending(k) /\ request'[k] = request[k]
      BY <1>3, <2>3 DEF Pending
    <3>4. request[g].id \in PaymentId /\ request[g].op \in Operation
      BY <3>2, RequestType DEF IInv, Pending
    <3>5. request[g].id = id => request[g].op = op
      BY <1>1, <3>2 DEF IInv, PendingOwn
    <3>6. (rows[request[g].id] # None => Fits(request[g].id, request[g].op))'
      <4>1. CASE request[g].id = id
        BY <4>1, <3>2, <3>5, <2>7
      <4>2. CASE request[g].id # id
        BY <4>2, <3>2, <3>4, <2>4, <2>6 DEF IInv, PendingOwn
      <4>3. QED
        BY <4>1, <4>2
    <3>7. QED
      BY <3>2, <3>3, <3>6 DEF IInv, PendingOwn
  <2>10. OwnFits'
    <3> SUFFICES ASSUME NEW o \in Operation, OwnId[o] # None, rows'[OwnId[o]] # None
                 PROVE  Fits(OwnId[o], o)'
      BY DEF OwnFits
    <3>1. OwnId[o] \in PaymentId
      BY IntentAssumption
    <3>2. CASE OwnId[o] = id
      BY <1>1, <2>7, <3>2 DEF IInv, PendingOwn
    <3>3. CASE OwnId[o] # id
      BY <2>4, <2>6, <3>1, <3>3 DEF IInv, OwnFits
    <3>4. QED
      BY <3>2, <3>3
  <2>11. HeldFits'
    <3> SUFFICES ASSUME NEW g \in Handler, request'[g] # None,
                        request'[g].step = "touch"
                 PROVE  /\ Fits(request[g].id, request[g].op)'
                        /\ request'[g].copy # None
                        /\ request'[g].copy.key = KeyOf[request'[g].op]
                        /\ request'[g].copy.body = BodyOf[request'[g].op]
      BY DEF HeldFits
    <3>1. CASE g = h
      BY <1>2, <1>3, <2>3, <2>7, <3>1
    <3>2. CASE g # h
      <4>1. request[g].id \in PaymentId /\ request[g].op \in Operation
        BY <2>3, <3>2, RequestType DEF IInv
      <4>2. QED
        BY <2>3, <2>6, <3>2, <4>1 DEF IInv, HeldFits
    <3>3. QED
      BY <3>1, <3>2
  <2>12. AnsweredFits'
    <3>1. \A a \in answers : a.id \in PaymentId /\ a.op \in Operation
      BY DEF IInv, TypeOK, Answer
    <3>2. QED
      BY <2>1, <2>6, <3>1 DEF IInv, AnsweredFits
  <2>13. QED
    BY <2>2, <2>8, <2>9, <2>10, <2>11, <2>12 DEF IInv
<1>6. QED
  BY <1>4, <1>5 DEF Insert

\* A copy that expires has the key and the body of the row it overwrites.
LEMMA TouchRows ==
  ASSUME IInv, NEW h \in Handler, Touch(h)
  PROVE  /\ RowsStay
         /\ rows' \in [PaymentId -> Row \cup {None}]
<1>1. PICK id \in PaymentId, op \in Operation, copy \in Row :
        request[h].id = id /\ request[h].op = op /\ request[h].copy = copy
  BY RequestType DEF IInv, Touch, HeldFits
<1>2. /\ Fits(id, op)
      /\ copy.key = KeyOf[op] /\ copy.body = BodyOf[op]
  BY <1>1 DEF IInv, HeldFits, Touch
<1> DEFINE row == [copy EXCEPT !.status = "expired", !.retryable = "false"]
<1>3. row \in Row /\ row.key = copy.key /\ row.body = copy.body
  BY DEF Row
<1>4. rows' = [rows EXCEPT ![id] = row] \/ rows' = rows
  BY <1>1 DEF Touch, IInv, TypeOK
<1> HIDE DEF row
<1>5. RowsStay
  BY <1>2, <1>3, <1>4, NotNone DEF IInv, TypeOK, RowsStay, Fits
<1> QED
  BY <1>3, <1>4, <1>5 DEF IInv, TypeOK

LEMMA TouchStep ==
  ASSUME IInv, NEW h \in Handler, Touch(h)
  PROVE  IInv'
<1>1. PICK id \in PaymentId, op \in Operation, copy \in Row :
        request[h].id = id /\ request[h].op = op /\ request[h].copy = copy
  BY RequestType DEF IInv, Touch, HeldFits
<1>2. /\ Fits(id, op)
      /\ copy.key = KeyOf[op] /\ copy.body = BodyOf[op]
  BY <1>1 DEF IInv, HeldFits, Touch
<1>5. RowsStay /\ rows' \in [PaymentId -> Row \cup {None}]
  BY TouchRows
<1>6. request' = [request EXCEPT ![h] = None]
  BY DEF Touch
<1>7. /\ answers' \subseteq Answer
      /\ intent' \in [Operation -> PaymentId \cup {None}]
      /\ \A a \in answers' : a \in answers \/ (a.op = op /\ a.id = id)
  <2>1. AnswerWith(h, id, TRUE) /\ request[h] # None /\ TypeOK
    BY <1>1 DEF IInv, Touch
  <2>2. /\ answers' \subseteq Answer
        /\ intent' \in [Operation -> PaymentId \cup {None}]
        /\ \A a \in answers' :
             \/ a \in answers
             \/ a.op = request[h].op /\ a.id = id /\ a.accepted = TRUE
    BY <2>1, AnswerStep
  <2>3. QED
    BY <1>1, <2>2
<1>8. TypeOK'
  BY <1>5, <1>6, <1>7 DEF IInv, TypeOK, Touch
<1>9. \A g \in Handler : request'[g] = request[g] \/ request'[g] = None
  BY <1>6 DEF IInv, TypeOK
<1>10. \A a \in answers' : a \in answers \/ ~a.accepted \/ Fits(a.id, a.op)
  BY <1>2, <1>7
<1>11. QED
  BY <1>5, <1>8, <1>9, <1>10, QuietStep

LEMMA TickStep ==
  ASSUME IInv, Tick
  PROVE  IInv'
<1>1. TypeOK'
  BY IntentAssumption DEF IInv, TypeOK, Tick
<1>2. RowsStay
  BY DEF RowsStay, Tick
<1>3. QED
  BY <1>1, <1>2, QuietStep DEF Tick

LEMMA CrashStep ==
  ASSUME IInv, NEW h \in Handler, Crash(h)
  PROVE  IInv'
<1>1. TypeOK'
  BY DEF IInv, TypeOK, Crash
<1>2. RowsStay
  BY DEF RowsStay, Crash
<1>3. \A g \in Handler : request'[g] = request[g] \/ request'[g] = None
  BY DEF IInv, TypeOK, Crash
<1>4. QED
  BY <1>1, <1>2, <1>3, QuietStep DEF Crash

LEMMA RecoverStep ==
  ASSUME IInv, NEW o \in Operation, Recover(o)
  PROVE  IInv'
<1>1. TypeOK'
  BY DEF IInv, TypeOK, Recover, IdsOf
<1>2. RowsStay
  BY DEF RowsStay, Recover
<1>3. QED
  BY <1>1, <1>2, QuietStep DEF Recover

\* Settlement changes the status of a row and error_retryable, nothing else.
LEMMA ProgressRows ==
  ASSUME IInv, NEW id \in PaymentId,
         NEW from \in {"authorized", "submitted"},
         NEW to \in {"submitted", "settled", "failed"},
         NEW retryable \in {"none", "true", "false"},
         Progress(id, from, to, retryable)
  PROVE  /\ RowsStay
         /\ rows' \in [PaymentId -> Row \cup {None}]
<1> DEFINE row == [rows[id] EXCEPT !.status = to, !.retryable = retryable]
<1>1. rows[id] \in Row
  BY DEF IInv, TypeOK, Progress
<1>2. row \in Row /\ row.key = rows[id].key /\ row.body = rows[id].body
  BY <1>1 DEF Row
<1>3. rows' = [rows EXCEPT ![id] = row]
  BY DEF Progress
<1> HIDE DEF row
<1> QED
  BY <1>1, <1>2, <1>3, NotNone DEF IInv, TypeOK, RowsStay

LEMMA ProgressStep ==
  ASSUME IInv, NEW id \in PaymentId,
         NEW from \in {"authorized", "submitted"},
         NEW to \in {"submitted", "settled", "failed"},
         NEW retryable \in {"none", "true", "false"},
         Progress(id, from, to, retryable)
  PROVE  IInv'
<1>1. RowsStay /\ rows' \in [PaymentId -> Row \cup {None}]
  BY ProgressRows
<1>2. TypeOK'
  BY <1>1 DEF IInv, TypeOK, Progress
<1> QED
  BY <1>1, <1>2, QuietStep DEF Progress

LEMMA NextStep == IInv /\ [Next]_vars => IInv'
<1> SUFFICES ASSUME IInv, [Next]_vars PROVE IInv'
  OBVIOUS
<1>1. CASE Tick
  BY <1>1, TickStep
<1>2. ASSUME NEW o \in Operation, Recover(o) PROVE IInv'
  BY <1>2, RecoverStep
<1>3. ASSUME NEW o \in Operation, NEW h \in Handler, SendCreate(o, h) PROVE IInv'
  BY <1>3, SendCreateStep
<1>4. ASSUME NEW h \in Handler,
             Select(h) \/ Insert(h) \/ Reselect(h) \/ Touch(h) \/ Crash(h)
      PROVE  IInv'
  BY <1>4, SelectStep, InsertStep, ReselectStep, TouchStep, CrashStep
<1>5. ASSUME NEW id \in PaymentId, Settlement(id) PROVE IInv'
  BY <1>5, ProgressStep DEF Settlement
<1>6. CASE UNCHANGED vars
  <2>1. TypeOK'
    BY <1>6 DEF IInv, TypeOK, vars
  <2>2. RowsStay
    BY <1>6 DEF RowsStay, vars
  <2>3. QED
    BY <1>6, <2>1, <2>2, QuietStep DEF vars
<1>7. QED
  BY <1>1, <1>2, <1>3, <1>4, <1>5, <1>6 DEF Next

LEMMA Invariance == Spec => []IInv
  BY InitIInv, NextStep, PTL DEF Spec

-----------------------------------------------------------------------------

\* Every variable stays in its set, however create_or_get's steps interleave.
THEOREM TypeCorrect == Spec => []TypeOK
<1>1. IInv => TypeOK
  BY DEF IInv
<1>2. QED
  BY <1>1, Invariance, PTL

\* Everyone who was given a payment under an idempotency key was given the same
\* one, whatever creators race in create_or_get: an accepted payment's row keeps
\* its key, and the UNIQUE constraint lets only one row have it.
THEOREM OnePaymentPerKey == Spec => []OneIntentPerKey
<1>1. IInv => OneIntentPerKey
  <2> SUFFICES ASSUME IInv, NEW a \in answers, NEW b \in answers,
                      a.accepted, b.accepted, KeyOf[a.op] = KeyOf[b.op]
               PROVE  a.id = b.id
    BY DEF OneIntentPerKey, Accepted
  <2>1. a.id \in PaymentId /\ b.id \in PaymentId
    BY DEF IInv, TypeOK, Answer
  <2>2. Fits(a.id, a.op) /\ Fits(b.id, b.op)
    BY DEF IInv, AnsweredFits
  <2>3. QED
    BY <2>1, <2>2 DEF IInv, KeysUnique, Fits
<1>2. QED
  BY <1>1, Invariance, PTL

\* A payment an agent was told of stays what it was told: it is found under the
\* operation's key, with the operation's body, so that recovery leads to it.
AcknowledgedIntentStays ==
  \A a \in answers : a.accepted =>
    /\ IdsOf(KeyOf[a.op]) = {a.id}
    /\ rows[a.id].body = BodyOf[a.op]

\* A payment an agent was told of is found under its operation's key, alone and
\* with the operation's body, for as long as the table lives: neither an upsert
\* of create_or_get nor _touch_payment's write of an old copy takes it away.
THEOREM AcknowledgedIntentIsKept == Spec => []AcknowledgedIntentStays
<1>1. IInv => AcknowledgedIntentStays
  <2> SUFFICES ASSUME IInv, NEW a \in answers, a.accepted
               PROVE  /\ IdsOf(KeyOf[a.op]) = {a.id}
                      /\ rows[a.id].body = BodyOf[a.op]
    BY DEF AcknowledgedIntentStays
  <2>1. a.id \in PaymentId /\ Fits(a.id, a.op)
    BY DEF IInv, TypeOK, Answer, AnsweredFits
  <2>2. \A id \in IdsOf(KeyOf[a.op]) : id = a.id
    BY <2>1 DEF IInv, KeysUnique, Fits, IdsOf
  <2>3. a.id \in IdsOf(KeyOf[a.op])
    BY <2>1 DEF Fits, IdsOf
  <2>4. QED
    BY <2>1, <2>2, <2>3 DEF Fits
<1>2. QED
  BY <1>1, Invariance, PTL

-----------------------------------------------------------------------------
(* The table and the answers implement IdempotencyRegister.                *)

LEMMA SameHeld ==
  ASSUME RowsStay
  PROVE  Held' = Held
<1>1. \A e : e \in Held <=>
        \E id \in PaymentId : rows[id] # None
          /\ e = [key |-> rows[id].key, id |-> id, body |-> rows[id].body]
  BY DEF Held
<1>2. \A e : e \in Held' <=>
        \E id \in PaymentId : rows'[id] # None
          /\ e = [key |-> rows'[id].key, id |-> id, body |-> rows'[id].body]
  BY DEF Held
<1>3. \A e : e \in Held' <=> e \in Held
  BY <1>1, <1>2 DEF RowsStay
<1> QED
  BY <1>3

\* A step that stores nothing new and accepts nothing.
LEMMA RegisterRests ==
  ASSUME RowsStay, answers \subseteq answers', \A a \in answers' : a \in answers \/ ~a.accepted
  PROVE  UNCHANGED <<Held, Told>>
<1>1. {a \in answers' : a.accepted} = {a \in answers : a.accepted}
  OBVIOUS
<1>2. Told' = Told
  BY <1>1 DEF Told
<1> QED
  BY <1>2, SameHeld

LEMMA FindingRests ==
  ASSUME TypeOK, NEW h \in Handler, Select(h) \/ Reselect(h)
  PROVE  UNCHANGED <<Held, Told>>
<1>1. rows' = rows
  BY DEF Select, Reselect
<1>2. answers' = answers \/ \E id \in PaymentId : AnswerWith(h, id, FALSE)
  BY DEF Select, Reselect, UseExisting, IdsOf
<1>3. answers \subseteq answers' /\ \A a \in answers' : a \in answers \/ ~a.accepted
  BY <1>2 DEF AnswerWith
<1> QED
  BY <1>1, <1>3, RegisterRests DEF RowsStay

\* What is stored anew has a key and an id that nothing in the table has.
LEMMA InsertRegisters ==
  ASSUME IInv, NEW h \in Handler, Insert(h)
  PROVE  [Register!Next]_<<Held, Told>>
<1> DEFINE r == request[h]
           row == Wanted(r)
           entry == [key |-> KeyOf[r.op], id |-> r.id, body |-> BodyOf[r.op]]
<1>1. r \in Request /\ Pending(h) /\ r.op \in Operation /\ r.id \in PaymentId
  BY RequestType DEF IInv, Insert, Pending
<1>2. row # None /\ row.key = KeyOf[r.op] /\ row.body = BodyOf[r.op]
  BY <1>1, WantedType, NotNone
<1>3. Told' = Told /\ answers' = answers
  BY DEF Insert, Told
<1> HIDE DEF row, r
<1>4. CASE rows' = rows
  BY <1>3, <1>4, RegisterRests DEF RowsStay
<1>5. CASE IdsOf(KeyOf[r.op]) \ {r.id} = {} /\ rows' = [rows EXCEPT ![r.id] = row]
  <2>1. rows'[r.id] = row /\ \A i \in PaymentId \ {r.id} : rows'[i] = rows[i]
    BY <1>1, <1>5 DEF IInv, TypeOK
  <2>2. CASE rows[r.id] # None
    <3>1. rows[r.id].key = row.key /\ rows[r.id].body = row.body
      BY <1>1, <1>2, <2>2 DEF IInv, PendingOwn, Fits, r
    <3>2. RowsStay
      BY <1>1, <1>2, <2>1, <2>2, <3>1 DEF RowsStay
    <3> QED
      BY <1>3, <3>2, RegisterRests
  <2>3. CASE rows[r.id] = None
    <3>1. \A other \in Held : other.key # entry.key /\ other.id # entry.id
      BY <1>5, <2>3 DEF Held, IdsOf
    <3>2. Held' = Held \cup {entry}
      <4>1. \A e : e \in Held' <=>
              \E id \in PaymentId : rows'[id] # None
                /\ e = [key |-> rows'[id].key, id |-> id, body |-> rows'[id].body]
        BY DEF Held
      <4>2. \A e : e \in Held <=>
              \E id \in PaymentId : rows[id] # None
                /\ e = [key |-> rows[id].key, id |-> id, body |-> rows[id].body]
        BY DEF Held
      <4>3. entry = [key |-> rows'[r.id].key, id |-> r.id, body |-> rows'[r.id].body]
        BY <1>2, <2>1
      <4> HIDE DEF entry
      <4>4. \A e : e \in Held' <=> e \in Held \/ e = entry
        BY <1>1, <1>2, <2>1, <2>3, <4>1, <4>2, <4>3
      <4> QED
        BY <4>4
    <3>3. entry \in Register!Entry
      BY <1>1, IntentAssumption DEF Register!Entry
    <3>4. Register!Store(entry)
      BY <1>3, <3>1, <3>2 DEF Register!Store
    <3> QED
      BY <3>3, <3>4 DEF Register!Next
  <2> QED
    BY <2>2, <2>3
<1> QED
  BY <1>4, <1>5 DEF Insert, r, row

\* The answer tells of the row that the request found or stored.
LEMMA TouchTells ==
  ASSUME IInv, NEW h \in Handler, Touch(h)
  PROVE  [Register!Next]_<<Held, Told>>
<1>1. RowsStay
  BY TouchRows
<1>2. PICK id \in PaymentId, op \in Operation :
        request[h].id = id /\ request[h].op = op /\ Fits(id, op)
  BY RequestType DEF IInv, Touch, HeldFits
<1> DEFINE a == [op |-> op, deadline |-> request[h].deadline, id |-> id, accepted |-> TRUE]
           entry == [key |-> KeyOf[op], id |-> id, body |-> BodyOf[op]]
<1>3. answers' = answers \cup {a}
  BY <1>2 DEF Touch, AnswerWith
<1>4. Held' = Held
  BY <1>1, SameHeld
<1>5. entry \in Held
  BY <1>2 DEF Held, Fits
<1>6. Told' = Told \cup {entry}
  <2>1. \A e : e \in Told <=>
          \E b \in answers : b.accepted
            /\ e = [key |-> KeyOf[b.op], id |-> b.id, body |-> BodyOf[b.op]]
    BY DEF Told
  <2>2. \A e : e \in Told' <=>
          \E b \in answers' : b.accepted
            /\ e = [key |-> KeyOf[b.op], id |-> b.id, body |-> BodyOf[b.op]]
    BY DEF Told
  <2>3. a.accepted /\ entry = [key |-> KeyOf[a.op], id |-> a.id, body |-> BodyOf[a.op]]
    OBVIOUS
  <2> HIDE DEF a, entry
  <2>4. \A e : e \in Told' <=> e \in Told \/ e = entry
    BY <1>3, <2>1, <2>2, <2>3
  <2> QED
    BY <2>4
<1>7. entry \in Register!Entry
  BY <1>2, IntentAssumption DEF Register!Entry
<1>8. Register!Tell(entry)
  BY <1>4, <1>5, <1>6 DEF Register!Tell
<1> QED
  BY <1>7, <1>8 DEF Register!Next

LEMMA StepRegisters == IInv /\ [Next]_vars => [Register!Next]_<<Held, Told>>
<1> SUFFICES ASSUME IInv, [Next]_vars PROVE [Register!Next]_<<Held, Told>>
  OBVIOUS
<1>1. CASE UNCHANGED <<rows, answers>>
  BY <1>1, RegisterRests DEF RowsStay
<1>2. ASSUME NEW h \in Handler, Select(h) \/ Reselect(h)
      PROVE  UNCHANGED <<Held, Told>>
  BY <1>2, FindingRests DEF IInv
<1>3. ASSUME NEW id \in PaymentId, Settlement(id) PROVE UNCHANGED <<Held, Told>>
  <2>1. RowsStay /\ answers' = answers
    BY <1>3, ProgressRows DEF Settlement, Progress
  <2> QED
    BY <2>1, RegisterRests
<1>4. ASSUME NEW h \in Handler, Crash(h) PROVE UNCHANGED <<rows, answers>>
  BY <1>4 DEF Crash
<1>5. CASE Tick \/ \E o \in Operation : Recover(o) \/ \E h \in Handler : SendCreate(o, h)
  <2>1. UNCHANGED <<rows, answers>>
    BY <1>5 DEF Tick, Recover, SendCreate
  <2> QED
    BY <1>1, <2>1
<1>6. CASE UNCHANGED vars
  BY <1>1, <1>6 DEF vars
<1> QED
  BY <1>1, <1>2, <1>3, <1>4, <1>5, <1>6, InsertRegisters, TouchTells DEF Next

\* create_or_get implements the register of idempotency keys, however its steps
\* interleave: each write of the table stores a new payment for a key and an id that
\* nothing has, or leaves keys and bodies as they are, and each accepting answer tells
\* of a row that is there.
THEOREM IntentsImplementRegister == Spec => ImplementsRegister
<1>1. Init => Register!Init
  BY DEF Init, Register!Init, Held, Told
<1> QED
  BY <1>1, Invariance, StepRegisters, PTL DEF Spec, ImplementsRegister, Register!Spec
-----------------------------------------------------------------------------
(* Where the gateway makes the payment ids, a creation writes over nothing. *)

GatewayMakesIds == \A o \in Operation : OwnId[o] = None

\* A request that has not found its payment stores it under an id of its own.
IdsUnused ==
  \A h \in Handler : Pending(h) =>
    /\ rows[request[h].id] = None
    /\ \A g \in Handler : Pending(g) /\ request[g].id = request[h].id => g = h

\* What is found, stored or told has the deadline that was asked for.
DeadlinesFit ==
  /\ \A h \in Handler : request[h] # None /\ request[h].step = "touch" =>
       /\ request[h].copy.deadline = request[h].deadline
       /\ rows[request[h].id].deadline = request[h].deadline
  /\ \A a \in answers : a.accepted => rows[a.id].deadline = a.deadline

GInv == IInv /\ IdsUnused /\ DeadlinesFit

\* The rows keep their deadlines, and none is deleted or stored.
DeadlinesStay ==
  \A i \in PaymentId :
    /\ rows[i] = None <=> rows'[i] = None
    /\ rows[i] # None => rows'[i].deadline = rows[i].deadline

\* A step that stores nothing new and answers, drops or leaves requests.
LEMMA QuietKeepsIds ==
  ASSUME GInv, DeadlinesStay,
         \A g \in Handler : request'[g] = request[g] \/ request'[g] = None,
         \A a \in answers' :
           \/ a \in answers \/ ~a.accepted
           \/ a.id \in PaymentId /\ rows[a.id] # None /\ rows[a.id].deadline = a.deadline
  PROVE  IdsUnused' /\ DeadlinesFit'
<1>1. \A g \in Handler : request[g] # None => request[g].id \in PaymentId
  BY RequestType DEF GInv, IInv
<1>2. IdsUnused'
  BY <1>1 DEF GInv, IdsUnused, Pending, DeadlinesStay
<1>3. ASSUME NEW h \in Handler, request'[h] # None, request'[h].step = "touch"
      PROVE  /\ request'[h].copy.deadline = request'[h].deadline
             /\ rows'[request'[h].id].deadline = request'[h].deadline
  <2>1. request'[h] = request[h] /\ request[h].id \in PaymentId
    BY <1>1, <1>3
  <2>2. rows[request[h].id] # None
    BY <1>3, <2>1 DEF GInv, IInv, HeldFits, Fits
  <2> QED
    BY <1>3, <2>1, <2>2 DEF GInv, DeadlinesFit, DeadlinesStay
<1>4. ASSUME NEW a \in answers', a.accepted PROVE rows'[a.id].deadline = a.deadline
  <2>1. a \in answers => a.id \in PaymentId /\ rows[a.id] # None
    BY <1>4 DEF GInv, IInv, TypeOK, Answer, AnsweredFits, Fits
  <2> QED
    BY <1>4, <2>1 DEF GInv, DeadlinesFit, DeadlinesStay
<1> QED
  BY <1>2, <1>3, <1>4 DEF DeadlinesFit

LEMMA SendKeepsIds ==
  ASSUME GatewayMakesIds, GInv, NEW o \in Operation, NEW h \in Handler, SendCreate(o, h)
  PROVE  IdsUnused' /\ DeadlinesFit'
<1> DEFINE deadline == IF KeepsDeadline /\ tries[o] > 0 THEN first[o]
                       ELSE now + Window
<1>1. PICK id \in FreshIds :
        request' = [request EXCEPT ![h] =
          [op |-> o, deadline |-> deadline, id |-> id, copy |-> None, step |-> "select"]]
  BY DEF SendCreate, GatewayMakesIds
<1> HIDE DEF deadline
<1>2. /\ request'[h].id = id /\ request'[h].step = "select"
      /\ \A g \in Handler \ {h} : request'[g] = request[g]
  BY <1>1 DEF GInv, IInv, TypeOK
<1>3. /\ rows[id] = None
      /\ \A g \in Handler : request[g] # None => request[g].id # id
  BY DEF FreshIds
<1>4. UNCHANGED <<rows, answers>>
  BY DEF SendCreate
<1>5. IdsUnused'
  BY <1>2, <1>3, <1>4 DEF GInv, IdsUnused, Pending
<1>6. DeadlinesFit'
  BY <1>2, <1>4 DEF GInv, DeadlinesFit
<1> QED
  BY <1>5, <1>6

\* A payment is found by a request for the same deadline.
LEMMA SameDeadline ==
  ASSUME NEW row \in Row, NEW r \in Request, SamePayload(row, Wanted(r))
  PROVE  row.deadline = r.deadline
<1>1. [row EXCEPT !.status = "authorized"].deadline = row.deadline
  BY DEF Row
<1>2. Wanted(r).deadline = r.deadline
  BY DEF Wanted
<1> QED
  BY <1>1, <1>2 DEF SamePayload

LEMMA FindKeepsIds ==
  ASSUME GInv, NEW h \in Handler, request[h] # None,
         NEW id \in IdsOf(KeyOf[request[h].op]), UseExisting(h, id), rows' = rows
  PROVE  IdsUnused' /\ DeadlinesFit'
<1>1. request[h] \in Request /\ id \in PaymentId /\ rows[id] \in Row
  BY RequestType DEF GInv, IInv, TypeOK, IdsOf
<1>2. CASE /\ SamePayload(rows[id], Wanted(request[h]))
           /\ request' = [request EXCEPT ![h] =
                [@ EXCEPT !.step = "touch", !.id = id, !.copy = rows[id]]]
           /\ UNCHANGED answers
  <2>1. /\ request'[h].step = "touch" /\ request'[h].id = id
        /\ request'[h].copy = rows[id] /\ request'[h].deadline = request[h].deadline
        /\ \A g \in Handler \ {h} : request'[g] = request[g]
    BY <1>1, <1>2 DEF GInv, IInv, TypeOK, Request
  <2>2. rows[id].deadline = request[h].deadline
    BY <1>1, <1>2, SameDeadline
  <2>3. IdsUnused'
    BY <2>1 DEF GInv, IdsUnused, Pending
  <2>4. DeadlinesFit'
    BY <1>2, <2>1, <2>2 DEF GInv, DeadlinesFit
  <2> QED
    BY <2>3, <2>4
<1>3. CASE request' = [request EXCEPT ![h] = None] /\ AnswerWith(h, id, FALSE)
  <2>1. \A a \in answers' : a \in answers \/ ~a.accepted
    BY <1>3 DEF AnswerWith
  <2>2. \A g \in Handler : request'[g] = request[g] \/ request'[g] = None
    BY <1>3 DEF GInv, IInv, TypeOK
  <2> QED
    BY <2>1, <2>2, QuietKeepsIds DEF DeadlinesStay
<1> QED
  BY <1>2, <1>3 DEF UseExisting

\* A request that goes on with its own payment.
LEMMA PendingKeepsIds ==
  ASSUME GInv, NEW h \in Handler, Pending(h), NEW step \in {"insert", "reselect"},
         request' = [request EXCEPT ![h] = [@ EXCEPT !.step = step]],
         UNCHANGED <<rows, answers>>
  PROVE  IdsUnused' /\ DeadlinesFit'
<1>1. /\ request'[h].id = request[h].id /\ request'[h].step = step
      /\ \A g \in Handler \ {h} : request'[g] = request[g]
  BY RequestType DEF GInv, IInv, TypeOK, Request, Pending
<1>2. IdsUnused'
  BY <1>1 DEF GInv, IdsUnused, Pending
<1>3. DeadlinesFit'
  BY <1>1 DEF GInv, DeadlinesFit
<1> QED
  BY <1>2, <1>3

\* The upsert finds no row under the id.
LEMMA InsertKeepsIds ==
  ASSUME GInv, NEW h \in Handler, Insert(h)
  PROVE  /\ IdsUnused' /\ DeadlinesFit'
         /\ \A i \in PaymentId : rows[i] # None => rows'[i] = rows[i]
<1> DEFINE r == request[h]
           row == Wanted(r)
<1>1. r \in Request /\ Pending(h) /\ r.id \in PaymentId
  BY RequestType DEF GInv, IInv, Insert, Pending
<1>2. row # None /\ row.deadline = r.deadline
  BY <1>1, WantedType, NotNone DEF Wanted
<1>3. rows[r.id] = None
  BY <1>1 DEF GInv, IdsUnused
<1> HIDE DEF row
<1>4. CASE /\ request' = [request EXCEPT ![h] = [r EXCEPT !.step = "reselect"]]
           /\ UNCHANGED rows
  BY <1>1, <1>4, PendingKeepsIds DEF Insert
<1>5. CASE /\ rows' = [rows EXCEPT ![r.id] = row]
           /\ request' = [request EXCEPT ![h] = [r EXCEPT !.step = "touch", !.copy = row]]
  <2>1. /\ request'[h].id = r.id /\ request'[h].step = "touch"
        /\ request'[h].copy = row /\ request'[h].deadline = r.deadline
        /\ \A g \in Handler \ {h} : request'[g] = request[g]
    BY <1>1, <1>5 DEF GInv, IInv, TypeOK, Request
  <2>2. rows'[r.id] = row /\ \A i \in PaymentId \ {r.id} : rows'[i] = rows[i]
    BY <1>1, <1>5 DEF GInv, IInv, TypeOK
  <2>3. IdsUnused'
    <3>1. \A g \in Handler : Pending(g) => request[g].id \in PaymentId
      BY RequestType DEF GInv, IInv, Pending
    <3>2. \A g \in Handler \ {h} : Pending(g) => request[g].id # r.id
      BY <1>1 DEF GInv, IdsUnused
    <3> QED
      BY <2>1, <2>2, <3>1, <3>2 DEF GInv, IdsUnused, Pending
  <2>4. ASSUME NEW g \in Handler, request'[g] # None, request'[g].step = "touch"
        PROVE  /\ request'[g].copy.deadline = request'[g].deadline
               /\ rows'[request'[g].id].deadline = request'[g].deadline
    <3>1. CASE g = h
      BY <1>2, <2>1, <2>2, <3>1
    <3>2. CASE g # h
      <4>1. request[g].id \in PaymentId /\ rows[request[g].id] # None
        BY <2>1, <2>4, <3>2, RequestType DEF GInv, IInv, HeldFits, Fits
      <4> QED
        BY <1>3, <2>1, <2>2, <2>4, <3>2, <4>1 DEF GInv, DeadlinesFit
    <3> QED
      BY <3>1, <3>2
  <2>5. ASSUME NEW a \in answers', a.accepted PROVE rows'[a.id].deadline = a.deadline
    <3>1. a \in answers
      BY DEF Insert
    <3>2. a.id \in PaymentId /\ rows[a.id] # None
      BY <2>5, <3>1 DEF GInv, IInv, TypeOK, Answer, AnsweredFits, Fits
    <3> QED
      BY <1>3, <2>2, <2>5, <3>1, <3>2 DEF GInv, DeadlinesFit
  <2>6. DeadlinesFit'
    BY <2>4, <2>5 DEF DeadlinesFit
  <2> QED
    BY <1>3, <2>2, <2>3, <2>6
<1> QED
  BY <1>4, <1>5 DEF Insert, row

\* A copy that expires has the deadline of its row, which has passed.
LEMMA TouchKeepsIds ==
  ASSUME GInv, NEW h \in Handler, Touch(h)
  PROVE  /\ IdsUnused' /\ DeadlinesFit'
         /\ \A i \in PaymentId :
              rows[i] # None /\ now <= rows[i].deadline => rows'[i] = rows[i]
<1>1. PICK id \in PaymentId, copy \in Row :
        request[h].id = id /\ request[h].copy = copy
  BY RequestType DEF GInv, IInv, Touch, HeldFits
<1>2. /\ rows[id] # None /\ copy.deadline = request[h].deadline
      /\ rows[id].deadline = request[h].deadline
  BY <1>1 DEF GInv, IInv, HeldFits, Fits, DeadlinesFit, Touch
<1> DEFINE row == [copy EXCEPT !.status = "expired", !.retryable = "false"]
<1>3. row \in Row /\ row.deadline = copy.deadline
  BY DEF Row
<1>4. \/ rows' = rows
      \/ copy.deadline < now /\ rows' = [rows EXCEPT ![id] = row]
  <2>1. CASE copy.status = "authorized" /\ copy.deadline < now
    BY <1>1, <2>1 DEF Touch
  <2>2. CASE ~(copy.status = "authorized" /\ copy.deadline < now)
    BY <1>1, <2>2 DEF Touch, GInv, IInv, TypeOK
  <2> QED
    BY <2>1, <2>2
<1> HIDE DEF row
<1>5. DeadlinesStay
  BY <1>2, <1>3, <1>4, NotNone DEF GInv, IInv, TypeOK, DeadlinesStay
<1>6. \A a \in answers' :
        a \in answers \/ (a.id = id /\ a.deadline = request[h].deadline)
  BY <1>1 DEF Touch, AnswerWith
<1>7. \A g \in Handler : request'[g] = request[g] \/ request'[g] = None
  BY DEF GInv, IInv, TypeOK, Touch
<1>8. IdsUnused' /\ DeadlinesFit'
  BY <1>2, <1>5, <1>6, <1>7, QuietKeepsIds
<1>9. ASSUME NEW i \in PaymentId, rows[i] # None, now <= rows[i].deadline
      PROVE  rows'[i] = rows[i]
  <2>1. now \in Nat /\ rows[i].deadline \in Nat
    BY <1>9, IntentAssumption DEF GInv, IInv, TypeOK, Row, Time
  <2>2. i = id => ~(copy.deadline < now)
    BY <1>2, <1>9, <2>1
  <2> QED
    BY <1>4, <2>2 DEF GInv, IInv, TypeOK
<1> QED
  BY <1>8, <1>9

LEMMA ProgressKeepsIds ==
  ASSUME GInv, NEW id \in PaymentId, Settlement(id)
  PROVE  /\ IdsUnused' /\ DeadlinesFit'
         /\ \A i \in PaymentId :
              rows[i] # None /\ rows[i].status = "settled" => rows'[i] = rows[i]
<1>1. PICK from \in {"authorized", "submitted"}, to \in {"submitted", "settled", "failed"},
           retryable \in {"none", "true", "false"} : Progress(id, from, to, retryable)
  BY DEF Settlement
<1> DEFINE row == [rows[id] EXCEPT !.status = to, !.retryable = retryable]
<1>2. rows[id] \in Row /\ rows[id].status # "settled"
  BY <1>1 DEF GInv, IInv, TypeOK, Progress
<1>3. row \in Row /\ row.deadline = rows[id].deadline
  BY <1>2 DEF Row
<1>4. rows' = [rows EXCEPT ![id] = row] /\ UNCHANGED <<request, answers>>
  BY <1>1 DEF Progress
<1> HIDE DEF row
<1>5. DeadlinesStay
  BY <1>2, <1>3, <1>4, NotNone DEF GInv, IInv, TypeOK, DeadlinesStay
<1>6. IdsUnused' /\ DeadlinesFit'
  BY <1>4, <1>5, QuietKeepsIds
<1> QED
  BY <1>2, <1>4, <1>6 DEF GInv, IInv, TypeOK

\* Settlement that is in time is left alone by creations and their retries.
SettledInTimeStays ==
  \A id \in PaymentId :
    rows[id] # None /\ rows[id].status = "settled" /\ now <= rows[id].deadline
      => rows'[id] = rows[id]

SameRequest(a, b) ==
  KeyOf[a.op] = KeyOf[b.op] /\ BodyOf[a.op] = BodyOf[b.op] /\ a.deadline = b.deadline

\* A request that was accepted once is refused only when a failure has touched its
\* payment.
RefusedAfterFailure ==
  \A a \in answers, b \in answers' \ answers :
    a.accepted /\ ~b.accepted /\ SameRequest(a, b) => rows[b.id].retryable # "none"

\* The key leads to the payment that was accepted, which differs from what is asked
\* for in error_retryable alone.
LEMMA RefusalIsDue ==
  ASSUME GInv, NEW h \in Handler, request[h] # None,
         NEW id \in IdsOf(KeyOf[request[h].op]), UseExisting(h, id)
  PROVE  RefusedAfterFailure
<1> SUFFICES ASSUME NEW a \in answers, NEW b \in answers' \ answers,
                    a.accepted, ~b.accepted, SameRequest(a, b)
             PROVE  rows[b.id].retryable # "none"
  BY DEF RefusedAfterFailure
<1> DEFINE r == request[h]
           row == rows[id]
<1>1. r \in Request /\ id \in PaymentId /\ row \in Row /\ row.key = KeyOf[r.op]
  BY RequestType DEF GInv, IInv, TypeOK, IdsOf
<1>2. /\ ~SamePayload(row, Wanted(r))
      /\ b.op = r.op /\ b.deadline = r.deadline /\ b.id = id
  BY DEF UseExisting, AnswerWith
<1>3. /\ a.id \in PaymentId /\ rows[a.id] # None
      /\ rows[a.id].key = KeyOf[a.op] /\ rows[a.id].body = BodyOf[a.op]
      /\ rows[a.id].deadline = a.deadline
  BY DEF GInv, IInv, TypeOK, Answer, AnsweredFits, Fits, DeadlinesFit
<1>4. a.id = id
  BY <1>1, <1>2, <1>3, NotNone DEF GInv, IInv, KeysUnique, SameRequest
<1>5. row.body = BodyOf[r.op] /\ row.deadline = r.deadline
  BY <1>2, <1>3, <1>4 DEF SameRequest
<1> HIDE DEF r, row
<1>6. ASSUME row.retryable = "none" PROVE SamePayload(row, Wanted(r))
  <2>1. row = [key |-> row.key, body |-> row.body, deadline |-> row.deadline,
               status |-> row.status, retryable |-> row.retryable]
    BY <1>1 DEF Row
  <2> QED
    BY <1>1, <1>5, <1>6, <2>1 DEF SamePayload, Wanted
<1> QED
  BY <1>2, <1>6 DEF row

LEMMA GatewayStep ==
  ASSUME GatewayMakesIds, GInv, [Next]_vars
  PROVE  GInv' /\ SettledInTimeStays /\ RefusedAfterFailure
<1> DEFINE Goal == IdsUnused' /\ DeadlinesFit' /\ SettledInTimeStays /\ RefusedAfterFailure
<1>1. ASSUME NEW h \in Handler, Select(h) \/ Reselect(h)
      PROVE  Goal
  <2>1. rows' = rows /\ request[h] # None
    BY <1>1 DEF Select, Reselect
  <2>2. SettledInTimeStays
    BY <2>1 DEF SettledInTimeStays
  <2>3. CASE /\ request[h].step = "select"
             /\ request' = [request EXCEPT ![h] = [@ EXCEPT !.step = "insert"]]
             /\ UNCHANGED answers
    <3>1. Pending(h)
      BY <2>1, <2>3 DEF Pending
    <3>2. RefusedAfterFailure
      BY <2>3 DEF RefusedAfterFailure
    <3> QED
      BY <2>1, <2>2, <2>3, <3>1, <3>2, PendingKeepsIds
  <2>4. CASE \E id \in IdsOf(KeyOf[request[h].op]) : UseExisting(h, id)
    BY <2>1, <2>2, <2>4, FindKeepsIds, RefusalIsDue
  <2> QED
    BY <1>1, <2>3, <2>4 DEF Select, Reselect
<1>2. ASSUME NEW h \in Handler, Insert(h)
      PROVE  Goal
  BY <1>2, InsertKeepsIds DEF SettledInTimeStays, RefusedAfterFailure, Insert
<1>3. ASSUME NEW h \in Handler, Touch(h)
      PROVE  Goal
  <2>1. \A b \in answers' \ answers : b.accepted
    BY <1>3 DEF Touch, AnswerWith
  <2> QED
    BY <1>3, <2>1, TouchKeepsIds DEF SettledInTimeStays, RefusedAfterFailure
<1>4. ASSUME NEW id \in PaymentId, Settlement(id)
      PROVE  Goal
  <2>1. answers' = answers
    BY <1>4 DEF Settlement, Progress
  <2> QED
    BY <1>4, <2>1, ProgressKeepsIds DEF SettledInTimeStays, RefusedAfterFailure
<1>5. ASSUME NEW o \in Operation, NEW h \in Handler, SendCreate(o, h)
      PROVE  Goal
  <2>1. UNCHANGED <<rows, answers>>
    BY <1>5 DEF SendCreate
  <2> QED
    BY <1>5, <2>1, SendKeepsIds DEF SettledInTimeStays, RefusedAfterFailure
<1>6. ASSUME \/ Tick \/ \E o \in Operation : Recover(o)
             \/ UNCHANGED vars \/ \E h \in Handler : Crash(h)
      PROVE  Goal
  <2>1. UNCHANGED <<rows, answers>>
    BY <1>6 DEF Tick, Recover, Crash, vars
  <2>2. \A g \in Handler : request'[g] = request[g] \/ request'[g] = None
    BY <1>6 DEF Tick, Recover, Crash, vars, GInv, IInv, TypeOK
  <2>3. IdsUnused' /\ DeadlinesFit'
    BY <2>1, <2>2, QuietKeepsIds DEF DeadlinesStay
  <2>4. SettledInTimeStays
    BY <2>1 DEF SettledInTimeStays
  <2>5. RefusedAfterFailure
    BY <2>1 DEF RefusedAfterFailure
  <2> QED
    BY <2>3, <2>4, <2>5
<1>7. IInv'
  BY NextStep DEF GInv
<1> HIDE DEF Goal
<1>8. Goal
  BY <1>1, <1>2, <1>3, <1>4, <1>5, <1>6 DEF Next
<1> QED
  BY <1>7, <1>8 DEF GInv, Goal

LEMMA InitGInv == Init => GInv
  BY InitIInv DEF GInv, Init, IdsUnused, Pending, DeadlinesFit

\* Where the gateway makes the ids, creations and retries leave what was settled
\* alone until its deadline, whatever copies they still write back (create_or_get,
\* _touch_payment).  RetriesKeepSettled is violated by agents that bring their own.
THEOREM CreationsKeepSettled ==
  GatewayMakesIds => (Spec => [][SettledInTimeStays]_vars)
<1> SUFFICES ASSUME GatewayMakesIds PROVE Spec => [][SettledInTimeStays]_vars
  OBVIOUS
<1>1. GInv /\ [Next]_vars => GInv' /\ [SettledInTimeStays]_vars
  BY GatewayStep
<1> QED
  BY <1>1, InitGInv, PTL DEF Spec

\* "Same key + same payload returns the original payment"
\* (spec/PROTOCOL_REFERENCE.md:129) is true of gateway-made ids as long as no failure
\* or expiry has set error_retryable, which _idempotency_payload compares.
THEOREM RefusalsFollowFailures ==
  GatewayMakesIds => (Spec => [][RefusedAfterFailure]_vars)
<1> SUFFICES ASSUME GatewayMakesIds PROVE Spec => [][RefusedAfterFailure]_vars
  OBVIOUS
<1>1. GInv /\ [Next]_vars => GInv' /\ [RefusedAfterFailure]_vars
  BY GatewayStep
<1> QED
  BY <1>1, InitGInv, PTL DEF Spec
===============================================================================
