------------------------ MODULE BookingLedgerProofs ------------------------
(***************************************************************************)
(* The safety of BookingLedger for every charge, parcel and amount: what   *)
(* holds for any number of requests, what needs one webhook at a time, and *)
(* what needs one request of the team at a time.                           *)
(***************************************************************************)
EXTENDS BookingLedger, SumsProofs, TLAPS

\* The share of a parcel is a whole number of cents.
LEMMA ShareType ==
  ASSUME NEW p \in Parcels
  PROVE  Share(p) \in Nat
<1> DEFINE a == 2 * Value[p] * Net + Gross
           b == 2 * Gross
<1>1. a \in Nat /\ b \in Nat /\ b > 0
  <2>1. Value[p] \in Nat /\ Net \in Nat /\ Gross \in Nat /\ Gross > 0
    BY MoneyAssumption
  <2>2. \A x, y \in Nat : x * y \in Nat OBVIOUS
  <2> QED BY <2>1, <2>2
<1>2. \A x, y \in Nat : y > 0 => x \div y \in Nat OBVIOUS
<1> HIDE DEF a, b
<1>3. a \div b \in Nat BY <1>1, <1>2
<1> QED BY <1>3 DEF a, b, Share

\* What a parcel settles is at most what is left to settle.
LEMMA QuitationType ==
  ASSUME settled \in Int, NEW p \in Parcels
  PROVE  /\ Quitation(p) \in Nat
         /\ Quitation(p) > 0 => settled + Quitation(p) <= Net
         /\ Quitation(p) = 0 => settled >= Net \/ Share(p) = 0
<1>1. Share(p) \in Nat BY ShareType
<1>2. Remaining \in Nat /\ Net \in Nat BY MoneyAssumption DEF Remaining
<1> QED BY <1>1, <1>2, MoneyAssumption DEF Quitation, Least, Remaining

\* Creating a row keeps the table typed.
LEMMA CreatesType ==
  ASSUME TypeOK, NEW k \in {"payment", "refund", "cashback"}, NEW a \in Int,
         NEW p \in Parcels \cup {None}, NEW c \in BOOLEAN, Creates(k, a, p, c)
  PROVE  /\ rows' \in Seq(Row) /\ received' \in Int /\ settled' \in Int
         /\ status' \in {"pending", "confirmed", "cancelled"}
<1> DEFINE x == [kind |-> k, amount |-> a, parcel |-> p, live |-> TRUE]
<1>1. x \in Row BY DEF Row
<1>2. rows' = Append(rows, x) BY DEF Creates
<1>3. rows' \in Seq(Row) BY <1>1, <1>2 DEF TypeOK
<1> QED BY <1>3 DEF Creates, Confirmed, TypeOK

-----------------------------------------------------------------------------
(* Type correctness.                                                       *)

LEMMA TypeInit ==
  ASSUME Init
  PROVE  TypeOK
<1>1. IdleHook \in HookType /\ IdleDesk \in DeskType
  BY DEF IdleHook, HookType, IdleDesk, DeskType
<1>2. <<>> \in Seq(Row) OBVIOUS
<1> QED BY <1>1, <1>2, BoundAssumption DEF Init, TypeOK

\* One webhook step leaves its own memory typed and every other alone.
LEMMA TypeHook ==
  ASSUME TypeOK, Requests, NEW h \in Hooks, Webhook(h) \/ HookDies(h)
  PROVE  TypeOK'
<1>0. hook[h] \in HookType /\ IdleHook \in HookType
  BY DEF TypeOK, IdleHook, HookType
<1>1. ASSUME NEW p \in Parcels, Delivers(h, p) PROVE TypeOK'
  <2> DEFINE x == [IdleHook EXCEPT !.at = "reads", !.parcel = p,
                     !.first = (mark = 0), !.confirms = (status = "pending")]
  <2>1. x \in HookType BY <1>0 DEF HookType
  <2>2. hook' = [hook EXCEPT ![h] = x] BY <1>1 DEF Delivers
  <2> QED BY <1>1, <2>1, <2>2 DEF Delivers, TypeOK, book, world, done
<1>2. CASE Ignores(h)
  <2>1. hook[h].parcel \in Parcels BY <1>2 DEF Ignores, Requests
  <2> QED BY <1>0, <1>2, <2>1 DEF Ignores, Answers, TypeOK, book, world, done
<1>3. CASE Decides(h)
  <2>1. Quitation(hook[h].parcel) \in Nat
    BY <1>3, QuitationType DEF Decides, Requests, TypeOK
  <2> DEFINE x == [hook[h] EXCEPT !.at = "writes", !.quit = Quitation(hook[h].parcel)]
  <2>2. x \in HookType BY <1>0, <2>1 DEF HookType
  <2>3. hook' = [hook EXCEPT ![h] = x] BY <1>3 DEF Decides, TypeOK
  <2> HIDE DEF x
  <2> QED BY <1>3, <2>2, <2>3 DEF Decides, TypeOK, book, world, done
<1>4. CASE Settles(h)
  <2> DEFINE x == [hook[h] EXCEPT !.at = "marks", !.row = Len(rows) + 1]
  <2>1. Len(rows) + 1 \in Nat BY DEF TypeOK
  <2>2. x \in HookType BY <1>0, <2>1 DEF HookType
  <2>3. hook' = [hook EXCEPT ![h] = x] BY <1>4 DEF Settles, TypeOK
  <2>4. hook' \in [Hooks -> HookType] BY <2>2, <2>3 DEF TypeOK
  <2>5. /\ rows' \in Seq(Row) /\ received' \in Int /\ settled' \in Int
        /\ status' \in {"pending", "confirmed", "cancelled"}
    <3>1. /\ hook[h].quit \in Int /\ hook[h].parcel \in Parcels \cup {None}
          /\ hook[h].confirms \in BOOLEAN
      BY <1>0 DEF HookType
    <3>2. Creates("payment", hook[h].quit, hook[h].parcel, hook[h].confirms)
      BY <1>4 DEF Settles
    <3> QED BY <3>1, <3>2, CreatesType
  <2> QED BY <1>4, <2>4, <2>5 DEF Settles, TypeOK, world, done
<1>5. CASE Marks(h)
  <2>1. hook[h].parcel \in Parcels BY <1>5 DEF Marks, Requests
  <2>2. hook[h].row \in Nat BY <1>0 DEF HookType
  <2> QED BY <1>0, <1>5, <2>1, <2>2 DEF Marks, Answers, TypeOK, book, world, done
<1>6. CASE HookDies(h)
  <2>1. faults' \in 0 .. MaxFaults BY <1>6, BoundAssumption DEF HookDies, TypeOK
  <2> QED BY <1>0, <1>6, <2>1 DEF HookDies, TypeOK, book, world
<1> QED BY <1>1, <1>2, <1>3, <1>4, <1>5, <1>6 DEF Webhook

\* The same of one step of the team.
LEMMA TypeDesk ==
  ASSUME TypeOK, Requests, NEW d \in Desks, Reads(d) \/ Writes(d) \/ DeskDies(d)
  PROVE  TypeOK'
<1>0. desk[d] \in DeskType /\ IdleDesk \in DeskType
  BY DEF TypeOK, IdleDesk, DeskType
<1>1. ASSUME Asks(d) PROVE ops' \in 0 .. MaxOps
  BY <1>1, BoundAssumption DEF Asks, TypeOK
<1>2. ASSUME NEW a \in Amounts \cup {0}, RegisterReads(d, a) PROVE TypeOK'
  <2> DEFINE x == [IdleDesk EXCEPT !.at = "pays", !.amount = a,
                                   !.confirms = (status = "pending")]
  <2>1. a \in Nat BY MoneyAssumption
  <2>2. x \in DeskType BY <1>0, <2>1 DEF DeskType
  <2>3. desk' = [desk EXCEPT ![d] = x] BY <1>2 DEF RegisterReads
  <2> HIDE DEF x
  <2> QED BY <1>1, <1>2, <2>2, <2>3 DEF RegisterReads, TypeOK, book, world
<1>3. ASSUME NEW a \in Amounts, NEW k \in {"refund", "cashback"}, RefundReads(d, a, k)
      PROVE  TypeOK'
  <2> DEFINE x == [IdleDesk EXCEPT !.at = "refunds", !.amount = a, !.kind = k,
                     !.left = received - a, !.open = (status # "cancelled")]
  <2>1. a \in Nat BY MoneyAssumption
  <2>2. received - a \in Nat
    BY <1>3, <2>1 DEF RefundReads, Refundable, TypeOK
  <2>3. x \in DeskType BY <1>0, <2>1, <2>2 DEF DeskType
  <2>4. desk' = [desk EXCEPT ![d] = x] BY <1>3 DEF RefundReads
  <2> HIDE DEF x
  <2> QED BY <1>1, <1>3, <2>3, <2>4 DEF RefundReads, TypeOK, book, world
<1>4. ASSUME NEW i \in DOMAIN rows, DeletePayment(d, i) PROVE TypeOK'
  <2>1. rows[i] \in Row BY DEF TypeOK
  <2>2. [rows[i] EXCEPT !.live = FALSE] \in Row /\ rows[i].amount \in Int
    BY <2>1 DEF Row
  <2>3. rows' = [rows EXCEPT ![i] = [rows[i] EXCEPT !.live = FALSE]]
    BY <1>4 DEF DeletePayment, TypeOK
  <2>4. rows' \in Seq(Row) BY <2>2, <2>3 DEF TypeOK
  <2> QED BY <1>1, <1>4, <2>2, <2>4 DEF DeletePayment, TypeOK, world
<1>5. CASE CancelBooking(d)
  BY <1>1, <1>5 DEF CancelBooking, TypeOK, world
<1>6. CASE ConfirmReads(d)
  <2> DEFINE x == [desk[d] EXCEPT !.at = "confirms"]
  <2>1. x \in DeskType BY <1>0 DEF DeskType
  <2>2. desk' = [desk EXCEPT ![d] = x] BY <1>6 DEF ConfirmReads, TypeOK
  <2> HIDE DEF x
  <2> QED BY <1>1, <1>6, <2>1, <2>2 DEF ConfirmReads, TypeOK, book, world
<1>7. CASE RegisterWrites(d)
  <2>1. desk[d].amount \in Int /\ desk[d].confirms \in BOOLEAN
    BY <1>0 DEF DeskType
  <2>2. Creates("payment", desk[d].amount, None, desk[d].confirms)
    BY <1>7 DEF RegisterWrites
  <2>3. /\ rows' \in Seq(Row) /\ received' \in Int /\ settled' \in Int
        /\ status' \in {"pending", "confirmed", "cancelled"}
    BY <2>1, <2>2, CreatesType
  <2> QED BY <1>0, <1>7, <2>3 DEF RegisterWrites, TypeOK, world, done
<1>8. CASE RefundWrites(d)
  <2> DEFINE x == [desk[d] EXCEPT !.at = AfterRefund(desk[d].kind)]
  <2>1. /\ -desk[d].amount \in Int
        /\ desk[d].kind \in {"payment", "refund", "cashback"}
    BY <1>0 DEF DeskType
  <2>2. Creates(desk[d].kind, -desk[d].amount, None, FALSE)
    BY <1>8 DEF RefundWrites
  <2>3. /\ rows' \in Seq(Row) /\ received' \in Int /\ settled' \in Int
        /\ status' \in {"pending", "confirmed", "cancelled"}
    BY <2>1, <2>2, CreatesType
  <2>4. x \in DeskType BY <1>0 DEF DeskType, AfterRefund
  <2>5. desk' = [desk EXCEPT ![d] = x] BY <1>8 DEF RefundWrites, TypeOK
  <2> HIDE DEF x
  <2> QED BY <1>8, <2>3, <2>4, <2>5 DEF RefundWrites, TypeOK, world, done
<1>9. CASE RefundCredits(d)
  <2> DEFINE x == [desk[d] EXCEPT !.at = "closes"]
  <2>1. x \in DeskType /\ desk[d].amount \in Nat BY <1>0 DEF DeskType
  <2>2. desk' = [desk EXCEPT ![d] = x] BY <1>9 DEF RefundCredits, TypeOK
  <2> HIDE DEF x
  <2> QED BY <1>9, <2>1, <2>2 DEF RefundCredits, TypeOK, book, world, done
<1>10. CASE RefundCloses(d)
  BY <1>0, <1>10 DEF RefundCloses, TypeOK, world, done
<1>11. CASE ConfirmWrites(d)
  BY <1>0, <1>11 DEF ConfirmWrites, TypeOK, world, done
<1>12. CASE DeskDies(d)
  <2>1. faults' \in 0 .. MaxFaults BY <1>12, BoundAssumption DEF DeskDies, TypeOK
  <2>2. torn' \in Nat BY <1>12 DEF DeskDies, TypeOK
  <2> QED BY <1>0, <1>12, <2>1, <2>2 DEF DeskDies, TypeOK, book, world
<1> QED
  BY <1>2, <1>3, <1>4, <1>5, <1>6, <1>7, <1>8, <1>9, <1>10, <1>11, <1>12
  DEF Reads, Writes

\* Every step of Next, by the lemmas on its parts.
LEMMA TypeNext ==
  ASSUME TypeOK, Requests, [Next]_vars
  PROVE  TypeOK'
<1>1. ASSUME NEW p \in Parcels, CustomerPays(p) PROVE TypeOK'
  BY <1>1 DEF CustomerPays, TypeOK, book, done
<1>2. CASE UNCHANGED vars
  BY <1>2 DEF vars, book, world, done, TypeOK
<1> QED BY <1>1, <1>2, TypeHook, TypeDesk DEF Next

-----------------------------------------------------------------------------
(* What holds for any number of requests.                                  *)

\* A new row goes to the end and disturbs none before it.
LEMMA GrowsByOne ==
  ASSUME TypeOK, NEW x, rows' = Append(rows, x)
  PROVE  /\ \A i \in DOMAIN rows' : \/ i \in DOMAIN rows /\ rows'[i] = rows[i]
                                    \/ i = Len(rows) + 1 /\ rows'[i] = x
         /\ \A i \in DOMAIN rows : i \in DOMAIN rows' /\ rows'[i] = rows[i]
         /\ Len(rows) + 1 \in DOMAIN rows' /\ rows'[Len(rows) + 1] = x
         /\ Len(rows) + 1 \notin DOMAIN rows
BY DEF TypeOK

\* No step makes a booking pending again.
LEMMA NeverPendingAgain ==
  ASSUME Next, status # "pending"
  PROVE  status' # "pending"
<1>1. ASSUME NEW h \in Hooks, Webhook(h) \/ HookDies(h) PROVE status' # "pending"
  BY <1>1 DEF Webhook, HookDies, Delivers, Ignores, Decides, Settles, Marks, Creates,
              Confirmed, book
<1>2. ASSUME NEW d \in Desks, Reads(d) PROVE status' # "pending"
  BY <1>2 DEF Reads, RegisterReads, RefundReads, DeletePayment, CancelBooking,
              ConfirmReads, book
<1>3. ASSUME NEW d \in Desks, Writes(d) \/ DeskDies(d) PROVE status' # "pending"
  BY <1>3 DEF Writes, DeskDies, RegisterWrites, RefundWrites, RefundCredits,
              RefundCloses, ConfirmWrites, Creates, Confirmed, book
<1>4. ASSUME NEW p \in Parcels, CustomerPays(p) PROVE status' # "pending"
  BY <1>4 DEF CustomerPays, book
<1> QED BY <1>1, <1>2, <1>3, <1>4 DEF Next

\* What is in a request's memory is of the right kind, and stays so.
LEMMA RequestsNext ==
  ASSUME TypeOK, Requests, Next
  PROVE  Requests'
<1>0. status # "pending" => status' # "pending" BY NeverPendingAgain
<1>1. ASSUME NEW h \in Hooks, Webhook(h) \/ HookDies(h) PROVE Requests'
  <2>1. desk' = desk
    BY <1>1 DEF Webhook, HookDies, Delivers, Ignores, Decides, Settles, Marks
  <2>2. \A g \in Hooks \ {h} : hook'[g] = hook[g]
    BY <1>1 DEF Webhook, HookDies, Delivers, Ignores, Decides, Settles, Marks,
                Answers, TypeOK
  <2>3. hook'[h].at # "idle" =>
          /\ hook'[h].parcel \in Parcels
          /\ ~hook'[h].confirms => status' # "pending"
          /\ hook'[h].at = "writes" => hook'[h].quit > 0
    <3>1. ASSUME NEW p \in Parcels, Delivers(h, p)
          PROVE  /\ hook'[h].at = "reads" /\ hook'[h].parcel = p /\ status' = status
                 /\ hook'[h].confirms = (status = "pending")
      BY <3>1 DEF Delivers, TypeOK, IdleHook, book
    <3>2. CASE Ignores(h) \/ Marks(h) \/ HookDies(h)
      BY <3>2 DEF Ignores, Marks, HookDies, Answers, TypeOK, IdleHook
    <3>3. CASE Decides(h)
      <4>1. /\ hook[h].at = "reads" /\ hook'[h].parcel = hook[h].parcel
            /\ hook'[h].confirms = hook[h].confirms /\ hook'[h].quit > 0
        BY <3>3 DEF Decides, TypeOK, HookType
      <4> QED BY <1>0, <4>1 DEF Requests
    <3>4. CASE Settles(h)
      <4>1. /\ hook[h].at = "writes" /\ hook'[h].parcel = hook[h].parcel
            /\ hook'[h].at = "marks" /\ hook'[h].confirms = hook[h].confirms
        BY <3>4 DEF Settles, TypeOK, HookType
      <4> QED BY <1>0, <4>1 DEF Requests
    <3> QED BY <1>1, <3>1, <3>2, <3>3, <3>4 DEF Webhook
  <2> QED BY <1>0, <2>1, <2>2, <2>3 DEF Requests
<1>2. ASSUME NEW d \in Desks, Reads(d) \/ Writes(d) \/ DeskDies(d) PROVE Requests'
  <2>1. hook' = hook
    BY <1>2 DEF Reads, Writes, DeskDies, RegisterReads, RefundReads, DeletePayment,
                CancelBooking, ConfirmReads, RegisterWrites, RefundWrites,
                RefundCredits, RefundCloses, ConfirmWrites
  <2>2. \A e \in Desks \ {d} : desk'[e] = desk[e]
    BY <1>2 DEF Reads, Writes, DeskDies, RegisterReads, RefundReads, DeletePayment,
                CancelBooking, ConfirmReads, RegisterWrites, RefundWrites,
                RefundCredits, RefundCloses, ConfirmWrites, TypeOK
  <2>3. /\ desk'[d].at = "pays" /\ ~desk'[d].confirms => status' # "pending"
        /\ desk'[d].at = "refunds" => desk'[d].kind # "payment" /\ desk'[d].amount > 0
    <3>1. ASSUME NEW a \in Amounts \cup {0}, RegisterReads(d, a)
          PROVE  /\ desk'[d].at = "pays" /\ status' = status
                 /\ desk'[d].confirms = (status = "pending")
      BY <3>1 DEF RegisterReads, TypeOK, IdleDesk, book
    <3>2. ASSUME NEW a \in Amounts, NEW k \in {"refund", "cashback"},
                 RefundReads(d, a, k)
          PROVE  desk'[d].at = "refunds" /\ desk'[d].kind = k /\ desk'[d].amount > 0
      <4>1. a > 0 BY MoneyAssumption
      <4> QED BY <3>2, <4>1 DEF RefundReads, TypeOK, IdleDesk
    <3>3. ASSUME \E i \in DOMAIN rows : DeletePayment(d, i)
          PROVE  desk'[d].at = "idle"
      BY <3>3 DEF DeletePayment, Asks
    <3>4. CASE CancelBooking(d)
      BY <3>4 DEF CancelBooking, Asks
    <3>5. CASE ConfirmReads(d) \/ RefundWrites(d) \/ RefundCredits(d)
      BY <3>5 DEF ConfirmReads, RefundWrites, RefundCredits, AfterRefund, TypeOK, DeskType
    <3>6. CASE RegisterWrites(d) \/ RefundCloses(d) \/ ConfirmWrites(d) \/ DeskDies(d)
      BY <3>6 DEF RegisterWrites, RefundCloses, ConfirmWrites, DeskDies, IdleDesk, TypeOK
    <3> QED BY <1>2, <3>1, <3>2, <3>3, <3>4, <3>5, <3>6 DEF Reads, Writes
  <2> QED BY <1>0, <2>1, <2>2, <2>3 DEF Requests
<1>3. ASSUME NEW p \in Parcels, CustomerPays(p) PROVE Requests'
  BY <1>3 DEF CustomerPays, Requests, book
<1> QED BY <1>1, <1>2, <1>3 DEF Next

\* A row that came in with the charge is positive, a payment of any origin left
\* the booking confirmed.
LEMMA RowsNext ==
  ASSUME TypeOK, Requests, RowsOfTheCharge, MoneyConfirms, Next
  PROVE  RowsOfTheCharge' /\ MoneyConfirms'
<1>0. status # "pending" => status' # "pending" BY NeverPendingAgain
<1>1. CASE UNCHANGED rows
  BY <1>0, <1>1 DEF RowsOfTheCharge, MoneyConfirms
<1>2. ASSUME NEW h \in Hooks, Settles(h) PROVE RowsOfTheCharge' /\ MoneyConfirms'
  <2> DEFINE x == [kind |-> "payment", amount |-> hook[h].quit,
                   parcel |-> hook[h].parcel, live |-> TRUE]
  <2>1. rows' = Append(rows, x) BY <1>2 DEF Settles, Creates
  <2>2. status' # "pending"
    BY <1>2 DEF Settles, Creates, Confirmed, Requests
  <2>3. x.amount > 0 BY <1>2 DEF Settles, Requests
  <2> HIDE DEF x
  <2>4. \A i \in DOMAIN rows' : (i \in DOMAIN rows /\ rows'[i] = rows[i]) \/ rows'[i] = x
    BY <2>1, GrowsByOne
  <2> QED BY <2>2, <2>3, <2>4 DEF RowsOfTheCharge, MoneyConfirms
<1>3. ASSUME NEW d \in Desks, RegisterWrites(d) PROVE RowsOfTheCharge' /\ MoneyConfirms'
  <2> DEFINE x == [kind |-> "payment", amount |-> desk[d].amount,
                   parcel |-> None, live |-> TRUE]
  <2>1. rows' = Append(rows, x) BY <1>3 DEF RegisterWrites, Creates
  <2>2. status' # "pending"
    BY <1>3 DEF RegisterWrites, Creates, Confirmed, Requests
  <2>3. x.parcel = None OBVIOUS
  <2> HIDE DEF x
  <2>4. \A i \in DOMAIN rows' : (i \in DOMAIN rows /\ rows'[i] = rows[i]) \/ rows'[i] = x
    BY <2>1, GrowsByOne
  <2> QED BY <2>2, <2>3, <2>4 DEF RowsOfTheCharge, MoneyConfirms
<1>4. ASSUME NEW d \in Desks, RefundWrites(d) PROVE RowsOfTheCharge' /\ MoneyConfirms'
  <2> DEFINE x == [kind |-> desk[d].kind, amount |-> -desk[d].amount,
                   parcel |-> None, live |-> TRUE]
  <2>1. rows' = Append(rows, x) BY <1>4 DEF RefundWrites, Creates
  <2>2. x.kind # "payment" /\ x.parcel = None
    BY <1>4 DEF RefundWrites, Requests
  <2> HIDE DEF x
  <2>3. \A i \in DOMAIN rows' : (i \in DOMAIN rows /\ rows'[i] = rows[i]) \/ rows'[i] = x
    BY <2>1, GrowsByOne
  <2> QED BY <1>0, <2>2, <2>3 DEF RowsOfTheCharge, MoneyConfirms
<1>5. ASSUME NEW d \in Desks, NEW j \in DOMAIN rows, DeletePayment(d, j)
      PROVE  RowsOfTheCharge' /\ MoneyConfirms'
  <2>1. /\ DOMAIN rows' = DOMAIN rows
        /\ \A i \in DOMAIN rows : /\ rows'[i].parcel = rows[i].parcel
                                  /\ rows'[i].kind = rows[i].kind
                                  /\ rows'[i].amount = rows[i].amount
    BY <1>5 DEF DeletePayment, TypeOK, Row
  <2> QED BY <1>0, <2>1 DEF RowsOfTheCharge, MoneyConfirms
<1>6. \/ UNCHANGED rows
      \/ \E h \in Hooks : Settles(h)
      \/ \E d \in Desks : \/ RegisterWrites(d) \/ RefundWrites(d)
                          \/ \E j \in DOMAIN rows : DeletePayment(d, j)
  BY DEF Next, Webhook, Reads, Writes, HookDies, DeskDies, CustomerPays, Delivers,
         Ignores, Decides, Marks, RegisterReads, RefundReads, CancelBooking,
         ConfirmReads, RefundCredits, RefundCloses, ConfirmWrites, book
<1> QED BY <1>1, <1>2, <1>3, <1>4, <1>5, <1>6

LEMMA AnyInit ==
  ASSUME Init
  PROVE  AnyInv
BY TypeInit DEF Init, AnyInv, Requests, RowsOfTheCharge, MoneyConfirms,
                IdleHook, IdleDesk

LEMMA AnyNext ==
  ASSUME AnyInv, [Next]_vars
  PROVE  AnyInv'
<1>1. CASE Next
  BY <1>1, TypeNext, RequestsNext, RowsNext DEF AnyInv
<1>2. CASE UNCHANGED vars
  BY <1>2, TypeNext DEF vars, book, AnyInv, Requests, RowsOfTheCharge, MoneyConfirms
<1> QED BY <1>1, <1>2

LEMMA AnyHolds == Spec => []AnyInv
BY AnyInit, AnyNext, PTL DEF Spec

\* The tables and the memory of every request are typed, and no refund in
\* flight expects to leave less than nothing.
THEOREM TypeCorrect == Spec => []TypeOK
<1>1. AnyInv => TypeOK BY DEF AnyInv
<1> QED BY <1>1, AnyHolds, PTL

\* Money confirms a booking whatever else is running: stale reads of the
\* status, requests that die, refunds and deletions never leave a payment on a
\* pending booking.
THEOREM MoneyAlwaysConfirms == Spec => []MoneyConfirms
<1>1. AnyInv => MoneyConfirms BY DEF AnyInv
<1> QED BY <1>1, AnyHolds, PTL

-----------------------------------------------------------------------------
(* What needs one webhook at a time, with any number of requests of the    *)
(* team in between.                                                        *)

\* The provider waits for an answer before it sends anything again.
OneWebhook == \A g, h \in Hooks : g = h

\* No parcel is so small that its share rounds to nothing.
SharesCount == \A p \in Parcels : Share(p) > 0

LedgerInv == HookIsCurrent /\ OneRowPerParcel /\ NeverOverSettled

\* A row outside the charge changes nothing the webhook looks at.
LEMMA OtherRow ==
  ASSUME TypeOK, Requests, NEW x, x.parcel = None, rows' = Append(rows, x),
         settled' = settled, hook' = hook, LedgerInv
  PROVE  LedgerInv'
<1>1. \A i \in DOMAIN rows' :
        (i \in DOMAIN rows /\ rows'[i] = rows[i]) \/ rows'[i].parcel = None
  BY GrowsByOne
<1>2. \A i \in DOMAIN rows : i \in DOMAIN rows' /\ rows'[i] = rows[i]
  BY GrowsByOne
<1>3. OneRowPerParcel' BY <1>1 DEF LedgerInv, OneRowPerParcel
<1>4. \A p \in Parcels : Booked(p)' => Booked(p)
  BY <1>1, MoneyAssumption DEF Booked
<1>5. HookIsCurrent'
  <2> SUFFICES ASSUME NEW h \in Hooks
               PROVE  /\ hook[h].at = "writes" => ~Booked(hook[h].parcel)'
                      /\ hook[h].at = "marks" =>
                           \E i \in DOMAIN rows' : rows'[i].parcel = hook[h].parcel
    BY DEF LedgerInv, HookIsCurrent, Booked
  <2>1. CASE hook[h].at = "writes"
    BY <1>4, <2>1 DEF LedgerInv, HookIsCurrent, Requests
  <2>2. CASE hook[h].at = "marks"
    BY <1>2, <2>2 DEF LedgerInv, HookIsCurrent
  <2> QED BY <2>1, <2>2
<1> QED BY <1>3, <1>5 DEF LedgerInv, NeverOverSettled

\* Deleting a row frees its parcel and what it settled, and nothing else.
LEMMA DeletedRow ==
  ASSUME TypeOK, Requests, RowsOfTheCharge, LedgerInv,
         NEW d \in Desks, NEW j \in DOMAIN rows, DeletePayment(d, j)
  PROVE  LedgerInv'
<1>1. /\ DOMAIN rows' = DOMAIN rows
      /\ \A i \in DOMAIN rows : /\ rows'[i].parcel = rows[i].parcel
                                /\ rows'[i].live => rows[i].live
  BY DEF DeletePayment, TypeOK, Row
<1>2. settled' <= settled /\ hook' = hook /\ settled' \in Int /\ settled \in Int
  <2>1. rows[j].parcel # None => rows[j].amount > 0 BY DEF RowsOfTheCharge
  <2>2. rows[j] \in Row BY DEF TypeOK
  <2>3. rows[j].amount \in Int BY <2>2 DEF Row
  <2> QED BY <2>1, <2>3 DEF DeletePayment, TypeOK
<1>3. OneRowPerParcel' BY <1>1 DEF LedgerInv, OneRowPerParcel
<1>4. HookIsCurrent'
  <2> SUFFICES ASSUME NEW h \in Hooks
               PROVE  /\ hook[h].at = "writes" =>
                           ~Booked(hook[h].parcel)' /\ settled' + hook[h].quit <= Net
                      /\ hook[h].at = "marks" =>
                           \E i \in DOMAIN rows' : rows'[i].parcel = hook[h].parcel
    BY <1>2 DEF HookIsCurrent, Booked
  <2>1. CASE hook[h].at = "writes"
    <3>1. hook[h].quit \in Int /\ Net \in Int BY MoneyAssumption DEF TypeOK, HookType
    <3>2. ~Booked(hook[h].parcel) /\ settled + hook[h].quit <= Net
      BY <2>1 DEF LedgerInv, HookIsCurrent
    <3>3. ~Booked(hook[h].parcel)' BY <1>1, <1>2, <3>2 DEF Booked
    <3> QED BY <1>2, <2>1, <3>1, <3>2, <3>3
  <2>2. CASE hook[h].at = "marks"
    BY <1>1, <2>2 DEF LedgerInv, HookIsCurrent
  <2> QED BY <2>1, <2>2
<1>5. NeverOverSettled' BY <1>2, MoneyAssumption DEF LedgerInv, NeverOverSettled
<1> QED BY <1>3, <1>4, <1>5 DEF LedgerInv

\* The webhook that writes is the one that read.
LEMMA HookSteps ==
  ASSUME OneWebhook, TypeOK, Requests, LedgerInv, NEW h \in Hooks,
         Webhook(h) \/ HookDies(h)
  PROVE  LedgerInv'
<1>1. \A g \in Hooks : g = h BY DEF OneWebhook
<1>2. hook[h] \in HookType BY DEF TypeOK
<1>3. ASSUME UNCHANGED <<rows, settled>>, hook'[h].at \in {"idle", "reads"}
      PROVE  LedgerInv'
  BY <1>1, <1>3 DEF LedgerInv, HookIsCurrent, OneRowPerParcel, NeverOverSettled, Booked
<1>4. ASSUME NEW p \in Parcels, Delivers(h, p) PROVE LedgerInv'
  <2>1. hook'[h].at = "reads" BY <1>4 DEF Delivers, TypeOK, IdleHook
  <2> QED BY <1>3, <1>4, <2>1 DEF Delivers, book
<1>5. CASE Ignores(h) \/ Marks(h) \/ HookDies(h)
  <2>1. hook'[h].at = "idle"
    BY <1>5 DEF Ignores, Marks, HookDies, Answers, TypeOK, IdleHook
  <2> QED BY <1>3, <1>5, <2>1 DEF Ignores, Marks, HookDies, book
<1>6. CASE Decides(h)
  <2>1. /\ hook'[h].at = "writes" /\ hook'[h].parcel = hook[h].parcel
        /\ hook'[h].quit = Quitation(hook[h].parcel)
    BY <1>2, <1>6 DEF Decides, TypeOK, HookType
  <2>2. hook[h].parcel \in Parcels BY <1>6 DEF Decides, Requests
  <2>3. settled + Quitation(hook[h].parcel) <= Net
    BY <1>6, <2>2, QuitationType DEF Decides, TypeOK
  <2>4. ~Booked(hook[h].parcel) BY <1>6 DEF Decides
  <2>5. UNCHANGED <<rows, settled>> BY <1>6 DEF Decides, book
  <2> QED BY <1>1, <2>1, <2>3, <2>4, <2>5
    DEF LedgerInv, HookIsCurrent, OneRowPerParcel, NeverOverSettled, Booked
<1>7. CASE Settles(h)
  <2> DEFINE x == [kind |-> "payment", amount |-> hook[h].quit,
                   parcel |-> hook[h].parcel, live |-> TRUE]
  <2>1. rows' = Append(rows, x) BY <1>7 DEF Settles, Creates
  <2>2. x.parcel = hook[h].parcel OBVIOUS
  <2> HIDE DEF x
  <2>3. hook'[h].at = "marks" /\ hook'[h].parcel = hook[h].parcel
    BY <1>2, <1>7 DEF Settles, TypeOK, HookType
  <2>4. ~Booked(hook[h].parcel) /\ settled + hook[h].quit <= Net
    BY <1>7 DEF Settles, LedgerInv, HookIsCurrent
  <2>5. HookIsCurrent'
    <3>1. \E i \in DOMAIN rows' : rows'[i].parcel = hook'[h].parcel
      BY <2>1, <2>2, <2>3, GrowsByOne
    <3> QED BY <1>1, <2>3, <3>1 DEF HookIsCurrent
  <2>6. OneRowPerParcel'
    <3>1. \A i \in DOMAIN rows' : \/ i \in DOMAIN rows /\ rows'[i] = rows[i]
                                  \/ i = Len(rows) + 1 /\ rows'[i].parcel = hook[h].parcel
      BY <2>1, <2>2, GrowsByOne
    <3> QED BY <2>4, <3>1 DEF LedgerInv, OneRowPerParcel, Booked
  <2>7. NeverOverSettled'
    <3>1. hook[h].parcel # None BY <1>7, MoneyAssumption DEF Settles, Requests
    <3>2. settled' = settled + hook[h].quit BY <1>7, <3>1 DEF Settles, Creates
    <3> QED BY <2>4, <3>2 DEF NeverOverSettled
  <2> QED BY <2>5, <2>6, <2>7 DEF LedgerInv
<1> QED BY <1>4, <1>5, <1>6, <1>7 DEF Webhook

\* The team's steps, whatever the webhook holds in memory.
LEMMA DeskSteps ==
  ASSUME TypeOK, Requests, RowsOfTheCharge, LedgerInv, NEW d \in Desks,
         Reads(d) \/ Writes(d) \/ DeskDies(d)
  PROVE  LedgerInv'
<1>1. ASSUME UNCHANGED <<rows, settled, hook>> PROVE LedgerInv'
  BY <1>1 DEF LedgerInv, HookIsCurrent, OneRowPerParcel, NeverOverSettled, Booked
<1>2. CASE RegisterWrites(d)
  <2> DEFINE x == [kind |-> "payment", amount |-> desk[d].amount,
                   parcel |-> None, live |-> TRUE]
  <2>1. rows' = Append(rows, x) /\ settled' = settled /\ hook' = hook
    BY <1>2 DEF RegisterWrites, Creates
  <2>2. x.parcel = None OBVIOUS
  <2> HIDE DEF x
  <2> QED BY <2>1, <2>2, OtherRow
<1>3. CASE RefundWrites(d)
  <2> DEFINE x == [kind |-> desk[d].kind, amount |-> -desk[d].amount,
                   parcel |-> None, live |-> TRUE]
  <2>1. rows' = Append(rows, x) /\ settled' = settled /\ hook' = hook
    BY <1>3 DEF RefundWrites, Creates
  <2>2. x.parcel = None OBVIOUS
  <2> HIDE DEF x
  <2> QED BY <2>1, <2>2, OtherRow
<1>4. ASSUME NEW j \in DOMAIN rows, DeletePayment(d, j) PROVE LedgerInv'
  BY <1>4, DeletedRow
<1>5. CASE ~RegisterWrites(d) /\ ~RefundWrites(d)
           /\ ~\E j \in DOMAIN rows : DeletePayment(d, j)
  BY <1>1, <1>5 DEF Reads, Writes, DeskDies, RegisterReads, RefundReads, CancelBooking,
     ConfirmReads, RefundCredits, RefundCloses, ConfirmWrites, book
<1> QED BY <1>2, <1>3, <1>4, <1>5

LEMMA LedgerNext ==
  ASSUME OneWebhook, AnyInv, LedgerInv, [Next]_vars
  PROVE  LedgerInv'
<1>1. ASSUME NEW p \in Parcels, CustomerPays(p) PROVE LedgerInv'
  BY <1>1 DEF CustomerPays, LedgerInv, HookIsCurrent, OneRowPerParcel,
              NeverOverSettled, Booked, book
<1>2. CASE UNCHANGED vars
  BY <1>2 DEF vars, book, LedgerInv, HookIsCurrent, OneRowPerParcel,
              NeverOverSettled, Booked
<1> QED BY <1>1, <1>2, HookSteps, DeskSteps DEF Next, AnyInv

\* While nothing is deleted, a row of a parcel stays a row of that parcel.
LEMMA RowsStay ==
  ASSUME TypeOK, Next
  PROVE  /\ AllLive' => AllLive
         /\ \A p \in Parcels : (\E i \in DOMAIN rows : rows[i].parcel = p)
                                 => \E i \in DOMAIN rows' : rows'[i].parcel = p
<1>1. ASSUME NEW x, rows' = Append(rows, x)
      PROVE  \A i \in DOMAIN rows : i \in DOMAIN rows' /\ rows'[i] = rows[i]
  BY <1>1, GrowsByOne
<1>2. CASE \E x : rows' = Append(rows, x)
  BY <1>1, <1>2 DEF AllLive
<1>3. CASE UNCHANGED rows
  BY <1>3 DEF AllLive
<1>4. ASSUME NEW d \in Desks, NEW j \in DOMAIN rows, DeletePayment(d, j)
      PROVE  /\ ~AllLive'
             /\ DOMAIN rows' = DOMAIN rows
             /\ \A i \in DOMAIN rows : rows'[i].parcel = rows[i].parcel
  BY <1>4 DEF DeletePayment, AllLive, TypeOK, Row
<1>5. \/ UNCHANGED rows
      \/ \E x : rows' = Append(rows, x)
      \/ \E d \in Desks : \E j \in DOMAIN rows : DeletePayment(d, j)
  <2>1. ASSUME NEW h \in Hooks, Webhook(h) \/ HookDies(h)
        PROVE  UNCHANGED rows \/ \E x : rows' = Append(rows, x)
    BY <2>1 DEF Webhook, HookDies, Delivers, Ignores, Decides, Settles, Marks,
                Creates, book
  <2>2. ASSUME NEW d \in Desks, Reads(d)
        PROVE  UNCHANGED rows \/ \E j \in DOMAIN rows : DeletePayment(d, j)
    BY <2>2 DEF Reads, RegisterReads, RefundReads, CancelBooking, ConfirmReads, book
  <2>3. ASSUME NEW d \in Desks, Writes(d) \/ DeskDies(d)
        PROVE  UNCHANGED rows \/ \E x : rows' = Append(rows, x)
    BY <2>3 DEF Writes, DeskDies, RegisterWrites, RefundWrites, RefundCredits,
                RefundCloses, ConfirmWrites, Creates, book
  <2>4. ASSUME NEW p \in Parcels, CustomerPays(p) PROVE UNCHANGED rows
    BY <2>4 DEF CustomerPays, book
  <2> QED BY <2>1, <2>2, <2>3, <2>4 DEF Next
<1> QED BY <1>2, <1>3, <1>4, <1>5

\* Nothing but a deletion lowers what the charge settled, and nothing raises it
\* past the net value: settled whole, it stays so.
LEMMA SettledStays ==
  ASSUME OneWebhook, AnyInv, LedgerInv, Next, AllLive', settled = Net
  PROVE  settled' = Net
<1>1. ASSUME NEW h \in Hooks, Settles(h) PROVE FALSE
  <2>1. settled + hook[h].quit <= Net /\ hook[h].quit > 0
    BY <1>1 DEF Settles, LedgerInv, HookIsCurrent, AnyInv, Requests
  <2>2. hook[h].quit \in Int /\ Net \in Int
    BY MoneyAssumption DEF AnyInv, TypeOK, HookType
  <2> QED BY <2>1, <2>2
<1>2. ASSUME NEW d \in Desks, NEW j \in DOMAIN rows, DeletePayment(d, j) PROVE FALSE
  BY <1>2 DEF DeletePayment, AllLive, AnyInv, TypeOK, Row
<1>3. ASSUME NEW d \in Desks, Reads(d) \/ Writes(d) \/ DeskDies(d)
      PROVE  settled' = settled
  BY <1>2, <1>3 DEF Reads, Writes, DeskDies, RegisterReads, RefundReads, CancelBooking,
     ConfirmReads, RegisterWrites, RefundWrites, RefundCredits, RefundCloses,
     ConfirmWrites, Creates, book
<1>4. ASSUME NEW h \in Hooks, Webhook(h) \/ HookDies(h) PROVE settled' = settled
  BY <1>1, <1>4 DEF Webhook, HookDies, Delivers, Ignores, Decides, Marks, book
<1>5. ASSUME NEW p \in Parcels, CustomerPays(p) PROVE settled' = settled
  BY <1>5 DEF CustomerPays, book
<1> QED BY <1>3, <1>4, <1>5 DEF Next

\* A parcel gets its 200 only when it is in the ledger or nothing is left.
LEMMA AnswersAreEarned ==
  ASSUME SharesCount, AnyInv, LedgerInv, Next, NEW p \in Parcels, p \in acked' \ acked
  PROVE  (\E i \in DOMAIN rows : rows[i].parcel = p) \/ settled = Net
<1>1. ASSUME NEW h \in Hooks, Ignores(h), hook[h].parcel = p
      PROVE  (\E i \in DOMAIN rows : rows[i].parcel = p) \/ settled = Net
  <2>1. CASE Booked(p) BY <2>1 DEF Booked
  <2>2. CASE Quitation(p) = 0
    <3>1. Share(p) > 0 /\ Net \in Int /\ settled \in Int
      BY MoneyAssumption DEF SharesCount, AnyInv, TypeOK
    <3>2. settled >= Net BY <2>2, <3>1, QuitationType, ShareType
    <3> QED BY <3>1, <3>2 DEF LedgerInv, NeverOverSettled
  <2> QED BY <1>1, <2>1, <2>2 DEF Ignores
<1>2. ASSUME NEW h \in Hooks, Marks(h), hook[h].parcel = p
      PROVE  \E i \in DOMAIN rows : rows[i].parcel = p
  BY <1>2 DEF Marks, LedgerInv, HookIsCurrent
<1>3. \A h \in Hooks : Ignores(h) \/ Marks(h) => acked' = acked \cup {hook[h].parcel}
  BY DEF Ignores, Marks, Answers
<1>4. \E h \in Hooks : Ignores(h) \/ Marks(h)
  BY DEF Next, Webhook, HookDies, CustomerPays, Delivers, Decides, Settles, Reads, Writes,
     DeskDies, RegisterReads, RefundReads, DeletePayment, CancelBooking, ConfirmReads,
     RegisterWrites, RefundWrites, RefundCredits, RefundCloses, ConfirmWrites
<1> QED BY <1>1, <1>2, <1>3, <1>4

LEMMA AnsweredNext ==
  ASSUME OneWebhook, SharesCount, AnyInv, LedgerInv, AnsweredIsBooked, [Next]_vars
  PROVE  AnsweredIsBooked'
<1>1. CASE UNCHANGED vars
  BY <1>1 DEF vars, book, AnsweredIsBooked, AllLive
<1>2. CASE Next
  <2> SUFFICES ASSUME AllLive', NEW p \in acked'
               PROVE  settled' = Net \/ \E i \in DOMAIN rows' : rows'[i].parcel = p
    BY DEF AnsweredIsBooked, AllLive
  <2>1. acked' \subseteq Parcels BY TypeNext DEF AnyInv, TypeOK
  <2>2. AllLive BY <1>2, RowsStay DEF AnyInv
  <2>3. settled = Net \/ \E i \in DOMAIN rows : rows[i].parcel = p
    BY <1>2, <2>1, <2>2, AnswersAreEarned DEF AnsweredIsBooked
  <2> QED BY <1>2, <2>1, <2>3, RowsStay, SettledStays DEF AnyInv
<1> QED BY <1>1, <1>2

LEMMA LedgerInit ==
  ASSUME Init
  PROVE  LedgerInv /\ AnsweredIsBooked
BY MoneyAssumption DEF Init, LedgerInv, HookIsCurrent, OneRowPerParcel,
   NeverOverSettled, AnsweredIsBooked, AllLive, IdleHook

LEMMA LedgerHolds ==
  ASSUME OneWebhook
  PROVE  Spec => []LedgerInv
<1>1. Init => LedgerInv BY LedgerInit
<1>2. AnyInv /\ LedgerInv /\ [Next]_vars => LedgerInv' BY LedgerNext
<1> QED BY <1>1, <1>2, AnyHolds, PTL DEF Spec

\* A resent event never books its parcel twice, whatever died or was refunded
\* or deleted in between, as long as two of its requests never overlap.
THEOREM ParcelsAreBookedOnce ==
  ASSUME OneWebhook
  PROVE  Spec => []OneRowPerParcel
<1>1. LedgerInv => OneRowPerParcel BY DEF LedgerInv
<1> QED BY <1>1, LedgerHolds, PTL

\* The charge settles its net value and no more, for every split into parcels,
\* every rounding and every deletion.
THEOREM ChargeIsCapped ==
  ASSUME OneWebhook
  PROVE  Spec => []NeverOverSettled
<1>1. LedgerInv => NeverOverSettled BY DEF LedgerInv
<1> QED BY <1>1, LedgerHolds, PTL

\* No 200 loses money: what was answered is in the ledger, or the charge was
\* settled whole.
THEOREM AnswersLoseNothing ==
  ASSUME OneWebhook, SharesCount
  PROVE  Spec => []AnsweredIsBooked
<1>1. Init => AnsweredIsBooked BY LedgerInit
<1>2. AnyInv /\ LedgerInv /\ AnsweredIsBooked /\ [Next]_vars => AnsweredIsBooked'
  BY AnsweredNext
<1> QED BY <1>1, <1>2, AnyHolds, LedgerHolds, PTL DEF Spec

-----------------------------------------------------------------------------
(* What needs one request of the team at a time, with any number of        *)
(* webhooks in between.                                                    *)

\* The team's requests on one booking do not overlap.
OneAtTheDesk == \A d, e \in Desks : d = e

TeamInv == DeskIsCurrent /\ RefundsAreCovered /\ EmptiedIsCancelled

\* Steps that leave the rows, the money and the status alone.
LEMMA QuietDesk ==
  ASSUME TeamInv, UNCHANGED <<status, rows, received, torn, desk>>
  PROVE  TeamInv'
BY DEF TeamInv, DeskIsCurrent, RefundsAreCovered, EmptiedIsCancelled, AllLive

\* A webhook brings money in and cancels nothing.
LEMMA HookUnderDesk ==
  ASSUME TypeOK, Requests, TeamInv, NEW h \in Hooks, Webhook(h) \/ HookDies(h)
  PROVE  TeamInv'
<1>1. CASE Settles(h)
  <2>1. hook[h].quit \in Nat /\ hook[h].quit > 0
    BY <1>1 DEF Settles, Requests, TypeOK, HookType
  <2>2. /\ received' = received + hook[h].quit
        /\ status = "cancelled" <=> status' = "cancelled"
        /\ desk' = desk
    BY <1>1 DEF Settles, Creates, Confirmed
  <2>3. AllLive' => AllLive
    BY <1>1, RowsStay DEF Next, Webhook
  <2>4. received \in Int /\ \A d \in Desks : desk[d].left \in Nat /\ desk[d].amount \in Nat
    BY DEF TypeOK, DeskType
  <2>5. DeskIsCurrent' BY <2>1, <2>2, <2>4 DEF TeamInv, DeskIsCurrent
  <2>6. AllLive' => received' > 0
    BY <2>1, <2>2, <2>3, <2>4 DEF TeamInv, RefundsAreCovered
  <2>7. received' \in Int BY <2>1, <2>2, <2>4
  <2>8. RefundsAreCovered' BY <2>6, <2>7 DEF RefundsAreCovered
  <2>9. EmptiedIsCancelled' BY <2>6, <2>7 DEF EmptiedIsCancelled
  <2> QED BY <2>5, <2>8, <2>9 DEF TeamInv
<1>2. CASE ~Settles(h)
  <2>1. UNCHANGED <<status, rows, received, torn, desk>>
    BY <1>2 DEF Webhook, HookDies, Delivers, Ignores, Decides, Marks, book, done
  <2> QED BY <2>1, QuietDesk
<1> QED BY <1>1, <1>2

\* What the only request of the team reads.
LEMMA DeskReads ==
  ASSUME OneAtTheDesk, TypeOK, TeamInv, NEW d \in Desks, Reads(d)
  PROVE  TeamInv'
<1>0. \A e \in Desks : e = d BY DEF OneAtTheDesk
<1>1. desk[d].at = "idle"
  BY DEF Reads, RegisterReads, RefundReads, DeletePayment, CancelBooking, ConfirmReads,
         Asks
<1>2. ASSUME UNCHANGED <<rows, received, torn>>, status' \in {status, "cancelled"}
      PROVE  RefundsAreCovered' /\ EmptiedIsCancelled'
  BY <1>0, <1>1, <1>2 DEF TeamInv, RefundsAreCovered, EmptiedIsCancelled, AllLive
<1>3. ASSUME NEW a \in Amounts \cup {0}, RegisterReads(d, a) PROVE TeamInv'
  <2>1. desk'[d].at = "pays" /\ status' = status /\ status # "cancelled"
    BY <1>3 DEF RegisterReads, TypeOK, IdleDesk, book
  <2>2. DeskIsCurrent' BY <1>0, <2>1 DEF DeskIsCurrent
  <2> QED BY <1>2, <1>3, <2>2 DEF RegisterReads, book, TeamInv
<1>4. ASSUME NEW a \in Amounts, NEW k \in {"refund", "cashback"}, RefundReads(d, a, k)
      PROVE  TeamInv'
  <2>1. /\ desk'[d].at = "refunds" /\ desk'[d].left = received - a
        /\ desk'[d].amount = a /\ desk'[d].open = (status # "cancelled")
        /\ status' = status /\ received' = received
    BY <1>4 DEF RefundReads, TypeOK, IdleDesk, book
  <2>2. a \in Int /\ received \in Int BY MoneyAssumption DEF TypeOK
  <2>3. received' >= desk'[d].left + desk'[d].amount BY <2>1, <2>2
  <2>4. DeskIsCurrent' BY <1>0, <2>1, <2>3 DEF DeskIsCurrent
  <2> QED BY <1>2, <1>4, <2>4 DEF RefundReads, book, TeamInv
<1>5. ASSUME NEW j \in DOMAIN rows, DeletePayment(d, j) PROVE TeamInv'
  <2>1. ~AllLive' BY <1>5 DEF DeletePayment, AllLive, TypeOK, Row
  <2>2. desk'[d].at = "idle" BY <1>1, <1>5 DEF DeletePayment
  <2>3. DeskIsCurrent' BY <1>0, <2>2 DEF DeskIsCurrent
  <2> QED BY <2>1, <2>3 DEF TeamInv, RefundsAreCovered, EmptiedIsCancelled
<1>6. CASE CancelBooking(d)
  <2>1. DeskIsCurrent' BY <1>0, <1>1, <1>6 DEF CancelBooking, DeskIsCurrent
  <2> QED BY <1>2, <1>6, <2>1 DEF CancelBooking, TeamInv
<1>7. CASE ConfirmReads(d)
  <2>1. desk'[d].at = "confirms" /\ status' = "pending"
    BY <1>7 DEF ConfirmReads, TypeOK, DeskType, book
  <2>2. DeskIsCurrent' BY <1>0, <2>1 DEF DeskIsCurrent
  <2> QED BY <1>2, <1>7, <2>2 DEF ConfirmReads, book, TeamInv
<1> QED BY <1>3, <1>4, <1>5, <1>6, <1>7 DEF Reads

\* What it then writes.
LEMMA DeskWrites ==
  ASSUME OneAtTheDesk, TypeOK, Requests, TeamInv, NEW d \in Desks, Writes(d) \/ DeskDies(d)
  PROVE  TeamInv'
<1>0. \A e \in Desks : e = d BY DEF OneAtTheDesk
<1>1. /\ desk[d] \in DeskType /\ desk[d].left \in Nat /\ desk[d].amount \in Nat
      /\ received \in Int /\ torn \in Nat
  BY DEF TypeOK, DeskType
<1>2. AllLive' => AllLive BY RowsStay DEF Next
<1>3. CASE RegisterWrites(d)
  <2> DEFINE x == [kind |-> "payment", amount |-> desk[d].amount,
                   parcel |-> None, live |-> TRUE]
  <2>1. rows' = Append(rows, x) BY <1>3 DEF RegisterWrites, Creates
  <2>2. x.kind = "payment" OBVIOUS
  <2> HIDE DEF x
  <2>3. /\ desk'[d].at = "idle" /\ received' = received + desk[d].amount
        /\ status # "cancelled" /\ torn' = torn
    BY <1>3 DEF RegisterWrites, Creates, TypeOK, IdleDesk, TeamInv, DeskIsCurrent, done
  <2>4. DeskIsCurrent' BY <1>0, <2>3 DEF DeskIsCurrent
  <2>5. RefundsAreCovered' BY <1>1, <1>2, <2>3 DEF TeamInv, RefundsAreCovered
  <2>6. EmptiedIsCancelled'
    <3> SUFFICES ASSUME AllLive', torn' = 0, NEW i \in DOMAIN rows',
                        rows'[i].kind # "payment", received' = 0
                 PROVE  FALSE
      BY DEF EmptiedIsCancelled, AllLive
    <3>1. received = 0 BY <1>1, <1>2, <2>3 DEF TeamInv, RefundsAreCovered
    <3>2. i \in DOMAIN rows /\ rows[i].kind # "payment" BY <2>1, <2>2, GrowsByOne
    <3>3. \A e \in Desks : desk[e].at \notin {"credits", "closes"}
      BY <1>0, <1>3 DEF RegisterWrites
    <3> QED BY <1>2, <2>3, <3>1, <3>2, <3>3 DEF TeamInv, EmptiedIsCancelled
  <2> QED BY <2>4, <2>5, <2>6 DEF TeamInv
<1>4. CASE RefundWrites(d)
  <2>1. /\ desk'[d].at \in {"credits", "closes"} /\ desk'[d].left = desk[d].left
        /\ desk'[d].open = desk[d].open
    BY <1>1, <1>4 DEF RefundWrites, AfterRefund, TypeOK, DeskType
  <2>2. received' = received - desk[d].amount /\ status' = status
    BY <1>1, <1>4 DEF RefundWrites, Creates, Confirmed
  <2>3. received' >= desk'[d].left
    BY <1>1, <1>4, <2>1, <2>2 DEF RefundWrites, TeamInv, DeskIsCurrent
  <2>4. ~desk'[d].open => status' = "cancelled"
    BY <1>4, <2>1, <2>2 DEF RefundWrites, TeamInv, DeskIsCurrent
  <2>5. DeskIsCurrent' BY <1>0, <2>1, <2>3, <2>4 DEF DeskIsCurrent
  <2>6. RefundsAreCovered' BY <1>1, <2>1, <2>2, <2>3 DEF RefundsAreCovered
  <2>7. EmptiedIsCancelled' BY <2>1 DEF EmptiedIsCancelled
  <2> QED BY <2>5, <2>6, <2>7 DEF TeamInv
<1>5. CASE RefundCredits(d)
  <2>1. /\ desk[d].at = "credits" /\ desk'[d].at = "closes"
        /\ desk'[d].left = desk[d].left /\ desk'[d].open = desk[d].open
        /\ UNCHANGED <<status, rows, received>>
    BY <1>1, <1>5 DEF RefundCredits, TypeOK, DeskType, book
  <2>2. DeskIsCurrent' BY <1>0, <2>1 DEF TeamInv, DeskIsCurrent
  <2>3. RefundsAreCovered' BY <2>1 DEF TeamInv, RefundsAreCovered, AllLive
  <2>4. EmptiedIsCancelled' BY <2>1 DEF EmptiedIsCancelled
  <2> QED BY <2>2, <2>3, <2>4 DEF TeamInv
<1>6. CASE RefundCloses(d)
  <2>1. /\ desk'[d].at = "idle" /\ UNCHANGED <<rows, received>>
        /\ received >= desk[d].left
    BY <1>6 DEF RefundCloses, TypeOK, IdleDesk, TeamInv, DeskIsCurrent
  <2>2. DeskIsCurrent' BY <1>0, <2>1 DEF DeskIsCurrent
  <2>3. RefundsAreCovered' BY <2>1 DEF TeamInv, RefundsAreCovered, AllLive
  <2>4. received = 0 => status' = "cancelled"
    BY <1>1, <1>6, <2>1 DEF RefundCloses, Closes, TeamInv, DeskIsCurrent
  <2>5. EmptiedIsCancelled' BY <2>1, <2>4 DEF EmptiedIsCancelled
  <2> QED BY <2>2, <2>3, <2>5 DEF TeamInv
<1>7. CASE ConfirmWrites(d)
  <2>1. /\ desk[d].at = "confirms" /\ desk'[d].at = "idle"
        /\ status # "cancelled" /\ UNCHANGED <<rows, received, torn>>
    BY <1>7 DEF ConfirmWrites, TypeOK, IdleDesk, TeamInv, DeskIsCurrent, done
  <2>2. DeskIsCurrent' BY <1>0, <2>1 DEF DeskIsCurrent
  <2>3. RefundsAreCovered' BY <2>1 DEF TeamInv, RefundsAreCovered, AllLive
  <2>4. EmptiedIsCancelled'
    BY <1>0, <2>1 DEF TeamInv, EmptiedIsCancelled, AllLive
  <2> QED BY <2>2, <2>3, <2>4 DEF TeamInv
<1>8. CASE DeskDies(d)
  <2>1. desk'[d].at = "idle" /\ UNCHANGED <<status, rows, received>>
    BY <1>8 DEF DeskDies, TypeOK, IdleDesk, book
  <2>2. torn' = 0 => torn = 0 /\ desk[d].at \notin {"credits", "closes"}
    BY <1>1, <1>8 DEF DeskDies
  <2>3. DeskIsCurrent' BY <1>0, <2>1 DEF DeskIsCurrent
  <2>4. RefundsAreCovered' BY <2>1 DEF TeamInv, RefundsAreCovered, AllLive
  <2>5. EmptiedIsCancelled'
    BY <1>0, <2>1, <2>2 DEF TeamInv, EmptiedIsCancelled, AllLive
  <2> QED BY <2>3, <2>4, <2>5 DEF TeamInv
<1> QED BY <1>3, <1>4, <1>5, <1>6, <1>7, <1>8 DEF Writes

LEMMA TeamNext ==
  ASSUME OneAtTheDesk, AnyInv, TeamInv, [Next]_vars
  PROVE  TeamInv'
<1>1. ASSUME NEW p \in Parcels, CustomerPays(p) PROVE TeamInv'
  BY <1>1, QuietDesk DEF CustomerPays, book, done
<1>2. CASE UNCHANGED vars
  BY <1>2, QuietDesk DEF vars, book, done
<1> QED BY <1>1, <1>2, HookUnderDesk, DeskReads, DeskWrites DEF Next, AnyInv

LEMMA TeamHolds ==
  ASSUME OneAtTheDesk
  PROVE  Spec => []TeamInv
<1>1. Init => TeamInv
  BY DEF Init, TeamInv, DeskIsCurrent, RefundsAreCovered, EmptiedIsCancelled, IdleDesk
<1>2. AnyInv /\ TeamInv /\ [Next]_vars => TeamInv' BY TeamNext
<1> QED BY <1>1, <1>2, AnyHolds, PTL DEF Spec

\* Webhooks that settle between the check and the row never let the refunds
\* exceed what came in.
THEOREM RefundsStayCovered ==
  ASSUME OneAtTheDesk
  PROVE  Spec => []RefundsAreCovered
<1>1. TeamInv => RefundsAreCovered BY DEF TeamInv
<1> QED BY <1>1, TeamHolds, PTL

\* A booking emptied by refunds is a cancelled booking.
THEOREM EmptiedAreCancelled ==
  ASSUME OneAtTheDesk
  PROVE  Spec => []EmptiedIsCancelled
<1>1. TeamInv => EmptiedIsCancelled BY DEF TeamInv
<1> QED BY <1>1, TeamHolds, PTL

\* No payment on its way, from the provider or from the desk, brings a
\* cancelled booking back.
THEOREM CancelledForGood ==
  ASSUME OneAtTheDesk
  PROVE  Spec => CancelledStays
<1> DEFINE Stays == status = "cancelled" => status' = "cancelled"
<1>1. AnyInv /\ TeamInv /\ [Next]_vars => Stays
  <2> SUFFICES ASSUME TeamInv, [Next]_vars, status = "cancelled"
               PROVE  status' = "cancelled"
    OBVIOUS
  <2>1. ASSUME NEW h \in Hooks, Webhook(h) \/ HookDies(h) PROVE status' = status
    BY <2>1 DEF Webhook, HookDies, Delivers, Ignores, Decides, Settles, Marks, Creates,
                Confirmed, book
  <2>2. ASSUME NEW d \in Desks, Reads(d) PROVE status' = "cancelled"
    BY <2>2 DEF Reads, RegisterReads, RefundReads, DeletePayment, CancelBooking,
                ConfirmReads, book
  <2>3. ASSUME NEW d \in Desks, Writes(d) \/ DeskDies(d) PROVE status' = "cancelled"
    BY <2>3 DEF Writes, DeskDies, RegisterWrites, RefundWrites, RefundCredits,
                RefundCloses, ConfirmWrites, Creates, Confirmed, TeamInv, DeskIsCurrent,
                book
  <2>4. ASSUME NEW p \in Parcels, CustomerPays(p) PROVE status' = status
    BY <2>4 DEF CustomerPays, book
  <2>5. CASE UNCHANGED vars BY <2>5 DEF vars, book
  <2> QED BY <2>1, <2>2, <2>3, <2>4, <2>5 DEF Next
<1>2. AnyInv /\ TeamInv /\ [Next]_vars => [Stays]_vars BY <1>1
<1>3. Spec => [][Stays]_vars BY <1>2, AnyHolds, TeamHolds, PTL DEF Spec
<1> QED BY <1>3 DEF CancelledStays
-----------------------------------------------------------------------------
(* The cashback ledger, for any number of requests of the team at once.    *)

AmountOf == [i \in DOMAIN rows |-> rows[i].amount]
Cashback == {i \in DOMAIN rows : rows[i].kind = "cashback"}

\* What a request of the team has refunded as credit and not credited yet.
Owed == [d \in Desks |-> IF desk[d].at = "credits" THEN desk[d].amount ELSE 0]

\* Every refund kept as credit is in the cashback ledger or in the hands of a
\* request that has not died.
CreditInv == torn = 0 => credit + SumOver(Owed, Desks) = -SumOver(AmountOf, Cashback)

LEMMA SumOfRows ==
  ASSUME NEW S, S \subseteq DOMAIN rows, IsFiniteSet(S)
  PROVE  SumOf(S) = SumOver(AmountOf, S)
BY DEF SumOf, SumOver, MapThenSumSet, MapThenFoldSet, AmountOf

LEMMA OwedIsWhole ==
  ASSUME TypeOK
  PROVE  IsFiniteSet(Desks) /\ \A d \in Desks : Owed[d] \in Int
BY BoundAssumption DEF Owed, TypeOK, DeskType

LEMMA CashbackIsWhole ==
  ASSUME TypeOK
  PROVE  /\ IsFiniteSet(Cashback) /\ Cashback \subseteq DOMAIN rows
         /\ \A i \in Cashback : AmountOf[i] \in Int
<1>1. rows \in Seq(Row) /\ DOMAIN rows = 1 .. Len(rows) /\ Len(rows) \in Nat
  BY DEF TypeOK
<1>2. IsFiniteSet(1 .. Len(rows))
  BY <1>1, FS_Interval
<1>3. IsFiniteSet(Cashback)
  BY <1>1, <1>2, FS_Subset DEF Cashback
<1>4. \A i \in DOMAIN rows : rows[i].amount \in Int
  <2>1. \A i \in DOMAIN rows : rows[i] \in Row
    BY <1>1
  <2>. QED BY <2>1 DEF Row
<1>. QED BY <1>3, <1>4 DEF Cashback, AmountOf

\* A step that owes and credits the same changes nothing, whatever else it does
\* to the rows.
LEMMA QuietCredit ==
  ASSUME CreditInv, \A d \in Desks : Owed'[d] = Owed[d], credit' = credit,
         torn' = 0 => torn = 0, TypeOK,
         Cashback' = Cashback, \A i \in Cashback : AmountOf'[i] = AmountOf[i]
  PROVE  CreditInv'
<1>1. SumOver(Owed', Desks) = SumOver(Owed, Desks)
  BY OwedIsWhole, SumAgrees
<1>2. SumOver(AmountOf', Cashback) = SumOver(AmountOf, Cashback)
  BY CashbackIsWhole, SumAgrees
<1>. QED BY <1>1, <1>2 DEF CreditInv

\* A row of another kind is in no sum of cashback, a row of cashback is.
LEMMA RowComes ==
  ASSUME TypeOK, NEW k \in {"payment", "refund", "cashback"}, NEW a \in Int,
         NEW p \in Parcels \cup {None}, NEW c \in BOOLEAN, Creates(k, a, p, c)
  PROVE  /\ k # "cashback" =>
              Cashback' = Cashback /\ \A i \in Cashback : AmountOf'[i] = AmountOf[i]
         /\ k = "cashback" =>
              SumOver(AmountOf', Cashback') = SumOver(AmountOf, Cashback) + a
<1>. DEFINE x == [kind |-> k, amount |-> a, parcel |-> p, live |-> TRUE]
            n == Len(rows) + 1
<1>1. rows' = Append(rows, x)
  BY DEF Creates
<1>2. /\ \A i \in DOMAIN rows' : \/ i \in DOMAIN rows /\ rows'[i] = rows[i]
                                 \/ i = n /\ rows'[i] = x
      /\ \A i \in DOMAIN rows : i \in DOMAIN rows' /\ rows'[i] = rows[i]
      /\ n \in DOMAIN rows' /\ rows'[n] = x /\ n \notin DOMAIN rows
  <2>. HIDE DEF x
  <2>. QED BY <1>1, GrowsByOne
<1>3. \A i \in Cashback : i \in DOMAIN rows' /\ AmountOf'[i] = AmountOf[i]
  BY <1>2 DEF AmountOf, Cashback
<1>4. CASE k # "cashback"
  <2>1. Cashback' = Cashback
    BY <1>2, <1>4 DEF Cashback
  <2>. QED BY <2>1, <1>3, <1>4
<1>5. CASE k = "cashback"
  <2>1. Cashback' = Cashback \cup {n} /\ n \notin Cashback /\ AmountOf'[n] = a
    BY <1>2, <1>5 DEF Cashback, AmountOf
  <2>2. IsFiniteSet(Cashback') /\ \A i \in Cashback' : AmountOf'[i] \in Int
    BY <2>1, <1>3, CashbackIsWhole, FS_AddElement
  <2>. HIDE DEF n, x
  <2>3. ASSUME NEW f, NEW S, IsFiniteSet(S), \A i \in S : f[i] \in Int, n \in S
        PROVE  SumOver(f, S) = f[n] + SumOver(f, S \ {n})
    BY <2>3, SumTakes
  <2>4. SumOver(AmountOf', Cashback') = AmountOf'[n] + SumOver(AmountOf', Cashback' \ {n})
    BY <2>1, <2>2, <2>3
  <2>5. Cashback' \ {n} = Cashback
    BY <2>1
  <2>6. SumOver(AmountOf', Cashback) = SumOver(AmountOf, Cashback)
    BY <1>3, CashbackIsWhole, SumAgrees
  <2>7. SumOver(AmountOf, Cashback) \in Int
    BY CashbackIsWhole, SumInt
  <2>8. SumOver(AmountOf', Cashback') = SumOver(AmountOf, Cashback) + a
    <3>1. AmountOf'[n] = a
      BY <2>1
    <3>2. SumOver(AmountOf', Cashback') = AmountOf'[n] + SumOver(AmountOf', Cashback)
      BY <2>4, <2>5
    <3>. QED BY <3>1, <3>2, <2>6, <2>7
  <2>. QED BY <2>8, <1>5
<1>. QED BY <1>4, <1>5

\* What is owed moves with one request.
LEMMA OwedMoves ==
  ASSUME TypeOK, TypeOK', NEW d \in Desks, \A e \in Desks \ {d} : desk'[e] = desk[e]
  PROVE  /\ SumOver(Owed', Desks) = SumOver(Owed, Desks) + (Owed'[d] - Owed[d])
         /\ SumOver(Owed, Desks) \in Int /\ Owed[d] \in Int /\ Owed'[d] \in Int
<1>1. IsFiniteSet(Desks) /\ \A e \in Desks : Owed[e] \in Int
  BY OwedIsWhole
<1>2. Owed'[d] \in Int /\ \A e \in Desks \ {d} : Owed'[e] = Owed[e]
  BY DEF Owed, TypeOK, DeskType
<1>3. ASSUME NEW f, NEW g, \A x \in Desks : f[x] \in Int, g[d] \in Int,
             \A x \in Desks \ {d} : g[x] = f[x]
      PROVE  SumOver(g, Desks) = SumOver(f, Desks) + (g[d] - f[d])
  BY <1>1, <1>3, SumChanges
<1>4. SumOver(Owed, Desks) \in Int
  BY <1>1, SumInt
<1>. QED BY <1>1, <1>2, <1>3, <1>4

LEMMA CreditOfHooks ==
  ASSUME AnyInv, CreditInv, NEW h \in Hooks, Webhook(h) \/ HookDies(h)
  PROVE  CreditInv'
<1>. USE DEF AnyInv
<1>1. Owed' = Owed /\ credit' = credit /\ torn' = torn
  BY DEF Owed, Webhook, HookDies, Delivers, Ignores, Decides, Settles, Marks, done
<1>2. CASE UNCHANGED rows
  BY <1>1, <1>2, QuietCredit DEF Cashback, AmountOf
<1>3. CASE Settles(h)
  <2>1. hook[h] \in HookType
    BY DEF TypeOK
  <2>2. Creates("payment", hook[h].quit, hook[h].parcel, hook[h].confirms)
        /\ hook[h].quit \in Int /\ hook[h].parcel \in Parcels \cup {None}
        /\ hook[h].confirms \in BOOLEAN
    BY <1>3, <2>1 DEF Settles, HookType
  <2>3. Cashback' = Cashback /\ \A i \in Cashback : AmountOf'[i] = AmountOf[i]
    BY <2>2, RowComes
  <2>. QED BY <1>1, <2>3, QuietCredit
<1>. QED BY <1>2, <1>3 DEF Webhook, HookDies, Delivers, Ignores, Decides, Marks, book

LEMMA CreditOfDesks ==
  ASSUME AnyInv, TypeOK', CreditInv, NEW d \in Desks, Reads(d) \/ Writes(d) \/ DeskDies(d)
  PROVE  CreditInv'
<1>. USE DEF AnyInv
<1>0. /\ desk[d] \in DeskType /\ desk[d].amount \in Nat
      /\ \A e \in Desks \ {d} : desk'[e] = desk[e]
      /\ torn \in Nat /\ credit \in Nat
  BY DEF TypeOK, DeskType, Reads, Writes, DeskDies, RegisterReads, RefundReads, DeletePayment,
         CancelBooking, ConfirmReads, RegisterWrites, RefundWrites, RefundCredits, RefundCloses,
         ConfirmWrites
<1>1. CASE Reads(d)
  <2>1. credit' = credit /\ torn' = torn
    BY <1>1 DEF Reads, RegisterReads, RefundReads, DeletePayment, CancelBooking, ConfirmReads
  <2>2. desk[d].at # "credits" /\ desk'[d].at # "credits"
    <3>1. desk[d].at = "idle" /\ desk \in [Desks -> DeskType]
      BY <1>1 DEF Reads, RegisterReads, RefundReads, DeletePayment, CancelBooking,
                  ConfirmReads, Asks, TypeOK
    <3>2. ASSUME NEW a, RegisterReads(d, a) PROVE desk'[d].at = "pays"
      BY <3>1, <3>2 DEF RegisterReads, IdleDesk
    <3>3. ASSUME NEW a, NEW k, RefundReads(d, a, k) PROVE desk'[d].at = "refunds"
      BY <3>1, <3>3 DEF RefundReads, IdleDesk
    <3>4. ASSUME NEW i, DeletePayment(d, i) PROVE desk' = desk
      BY <3>4 DEF DeletePayment
    <3>5. CASE CancelBooking(d)
      BY <3>1, <3>5 DEF CancelBooking
    <3>6. CASE ConfirmReads(d)
      <4>1. desk'[d].at = "confirms"
        BY <3>1, <3>6 DEF ConfirmReads, DeskType
      <4>. QED BY <3>1, <4>1
    <3>. QED BY <1>1, <3>1, <3>2, <3>3, <3>4, <3>5, <3>6 DEF Reads
  <2>3. \A e \in Desks : Owed'[e] = Owed[e]
    BY <2>2, <1>0 DEF Owed
  <2>4. Cashback' = Cashback /\ \A i \in Cashback : AmountOf'[i] = AmountOf[i]
    <3>1. CASE UNCHANGED rows
      BY <3>1 DEF Cashback, AmountOf
    <3>2. ASSUME NEW j \in DOMAIN rows, DeletePayment(d, j)
          PROVE  Cashback' = Cashback /\ \A i \in Cashback : AmountOf'[i] = AmountOf[i]
      <4>1. /\ DOMAIN rows' = DOMAIN rows
            /\ \A i \in DOMAIN rows : rows'[i].kind = rows[i].kind /\ rows'[i].amount = rows[i].amount
        BY <3>2 DEF DeletePayment, TypeOK, Row
      <4>. QED BY <4>1 DEF Cashback, AmountOf
    <3>. QED BY <1>1, <3>1, <3>2 DEF Reads, RegisterReads, RefundReads, CancelBooking,
                                     ConfirmReads, book
  <2>. QED BY <2>1, <2>3, <2>4, QuietCredit
<1>2. CASE RegisterWrites(d)
  <2>1. Creates("payment", desk[d].amount, None, desk[d].confirms)
        /\ desk[d].confirms \in BOOLEAN /\ desk[d].amount \in Int
    BY <1>0, <1>2 DEF RegisterWrites, DeskType
  <2>2. Cashback' = Cashback /\ \A i \in Cashback : AmountOf'[i] = AmountOf[i]
    BY <2>1, RowComes
  <2>3. credit' = credit /\ torn' = torn /\ desk[d].at = "pays" /\ desk'[d] = IdleDesk
    BY <1>2 DEF RegisterWrites, done, TypeOK
  <2>4. \A e \in Desks : Owed'[e] = Owed[e]
    BY <2>3, <1>0 DEF Owed, IdleDesk
  <2>. QED BY <2>2, <2>3, <2>4, QuietCredit
<1>3. CASE RefundWrites(d)
  <2>1. /\ Creates(desk[d].kind, -desk[d].amount, None, FALSE)
        /\ desk[d].kind \in {"payment", "refund", "cashback"} /\ -desk[d].amount \in Int
        /\ credit' = credit /\ torn' = torn /\ desk[d].at = "refunds"
        /\ desk'[d].at = AfterRefund(desk[d].kind) /\ desk'[d].amount = desk[d].amount
    <3>1. desk' = [desk EXCEPT ![d].at = AfterRefund(desk[d].kind)] /\ desk \in [Desks -> DeskType]
      BY <1>3 DEF RefundWrites, TypeOK
    <3>2. desk'[d] = [desk[d] EXCEPT !.at = AfterRefund(desk[d].kind)]
      BY <3>1
    <3>3. desk'[d].at = AfterRefund(desk[d].kind) /\ desk'[d].amount = desk[d].amount
      BY <3>2, <1>0 DEF DeskType
    <3>4. desk[d].kind \in {"payment", "refund", "cashback"} /\ -desk[d].amount \in Int
      BY <1>0 DEF DeskType
    <3>. QED BY <1>3, <3>3, <3>4 DEF RefundWrites, done
  <2>2. CASE desk[d].kind # "cashback"
    <3>1. Cashback' = Cashback /\ \A i \in Cashback : AmountOf'[i] = AmountOf[i]
      BY <2>1, <2>2, RowComes
    <3>2. \A e \in Desks : Owed'[e] = Owed[e]
      BY <2>1, <2>2, <1>0 DEF Owed, AfterRefund
    <3>. QED BY <2>1, <3>1, <3>2, QuietCredit
  <2>3. CASE desk[d].kind = "cashback"
    <3>1. SumOver(AmountOf', Cashback') = SumOver(AmountOf, Cashback) + (-desk[d].amount)
      BY <2>1, <2>3, RowComes
    <3>2. Owed[d] = 0 /\ Owed'[d] = desk[d].amount
      BY <2>1, <2>3 DEF Owed, AfterRefund
    <3>3. /\ SumOver(Owed', Desks) = SumOver(Owed, Desks) + (Owed'[d] - Owed[d])
          /\ SumOver(Owed, Desks) \in Int
      BY <1>0, OwedMoves
    <3>4. SumOver(AmountOf, Cashback) \in Int
      BY CashbackIsWhole, SumInt
    <3>. QED BY <3>1, <3>2, <3>3, <3>4, <2>1, <1>0 DEF CreditInv
  <2>. QED BY <2>2, <2>3
<1>4. CASE RefundCredits(d)
  <2>1. /\ credit' = credit + desk[d].amount /\ torn' = torn /\ rows' = rows
        /\ Owed[d] = desk[d].amount /\ Owed'[d] = 0
    BY <1>4 DEF RefundCredits, done, book, Owed, TypeOK
  <2>2. /\ SumOver(Owed', Desks) = SumOver(Owed, Desks) + (Owed'[d] - Owed[d])
        /\ SumOver(Owed, Desks) \in Int
    BY <1>0, OwedMoves
  <2>3. SumOver(AmountOf', Cashback') = SumOver(AmountOf, Cashback)
    BY <2>1 DEF AmountOf, Cashback
  <2>. QED BY <2>1, <2>2, <2>3, <1>0 DEF CreditInv
<1>5. CASE RefundCloses(d) \/ ConfirmWrites(d)
  <2>1. credit' = credit /\ torn' = torn /\ rows' = rows
    BY <1>5 DEF RefundCloses, ConfirmWrites, done
  <2>2. desk[d].at # "credits" /\ desk'[d].at # "credits"
    BY <1>5 DEF RefundCloses, ConfirmWrites, TypeOK, IdleDesk
  <2>3. \A e \in Desks : Owed'[e] = Owed[e]
    BY <2>2, <1>0 DEF Owed
  <2>. QED BY <2>1, <2>3, QuietCredit DEF Cashback, AmountOf
<1>6. CASE DeskDies(d)
  <2>1. credit' = credit /\ rows' = rows /\ desk'[d].at # "credits"
    BY <1>6 DEF DeskDies, book, TypeOK, IdleDesk
  <2>2. CASE desk[d].at = "credits"
    <3>1. torn' # 0
      BY <1>0, <1>6, <2>2 DEF DeskDies
    <3>. QED BY <3>1 DEF CreditInv
  <2>3. CASE desk[d].at # "credits"
    <3>1. torn' = 0 => torn = 0
      BY <1>0, <1>6 DEF DeskDies
    <3>2. \A e \in Desks : Owed'[e] = Owed[e]
      BY <2>1, <2>3, <1>0 DEF Owed
    <3>. QED BY <2>1, <3>1, <3>2, QuietCredit DEF Cashback, AmountOf
  <2>. QED BY <2>2, <2>3
<1>. QED BY <1>1, <1>2, <1>3, <1>4, <1>5, <1>6 DEF Writes

LEMMA CreditNext == AnyInv /\ CreditInv /\ [Next]_vars => CreditInv'
<1>. SUFFICES ASSUME AnyInv, CreditInv, [Next]_vars PROVE CreditInv'
  OBVIOUS
<1>1. TypeOK'
  BY AnyNext DEF AnyInv
<1>2. CASE UNCHANGED vars
  BY <1>2, QuietCredit DEF vars, book, done, AnyInv, Owed, Cashback, AmountOf
<1>3. ASSUME NEW p \in Parcels, CustomerPays(p) PROVE CreditInv'
  BY <1>3, QuietCredit DEF CustomerPays, book, done, AnyInv, Owed, Cashback, AmountOf
<1>. QED BY <1>1, <1>2, <1>3, CreditOfHooks, CreditOfDesks DEF Next

\* Every refund the team kept as credit is in the customer's cashback ledger, once,
\* with any number of requests of the team between each other's statements, rows
\* deleted meanwhile, and webhooks; when none is half way and none died there.
THEOREM RefundedCreditIsBacked == Spec => []CreditIsBacked
<1>1. Init => CreditInv
  <2>. SUFFICES ASSUME Init PROVE CreditInv
    OBVIOUS
  <2>1. Cashback = {} /\ \A d \in Desks : Owed[d] = 0
    BY DEF Init, Cashback, Owed, IdleDesk
  <2>. DEFINE z == [d \in Desks |-> 0]
  <2>2. SumOver(Owed, Desks) = 0
    <3>1. TypeOK
      BY TypeInit
    <3>. QED BY <2>1, <3>1, OwedIsWhole, SumZero
  <2>. QED BY <2>1, <2>2, SumEmpty DEF CreditInv, Init
<1>2. AnyInv /\ CreditInv => CreditIsBacked
  <2>. SUFFICES ASSUME TypeOK, CreditInv, torn = 0, \A d \in Desks : desk[d].at # "credits"
       PROVE  credit = -SumOf(Cashback)
    BY DEF CreditIsBacked, AnyInv, Cashback
  <2>1. SumOver(Owed, Desks) = 0
    <3>1. \A d \in Desks : Owed[d] = 0
      BY DEF Owed
    <3>. QED BY <3>1, OwedIsWhole, SumZero
  <2>2. SumOf(Cashback) = SumOver(AmountOf, Cashback)
    BY CashbackIsWhole, SumOfRows
  <2>. QED BY <2>1, <2>2 DEF CreditInv, TypeOK
<1>. QED BY <1>1, <1>2, CreditNext, AnyHolds, PTL DEF Spec

=============================================================================
