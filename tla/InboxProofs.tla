---------------------------- MODULE InboxProofs ----------------------------
(***************************************************************************)
(* Proofs about the inbox: its types, that automations wake once, and that *)
(* a contact whose number always showed has one conversation.              *)
(***************************************************************************)
EXTENDS Inbox, FiniteSetTheorems, SequenceTheorems, TLAPS

-----------------------------------------------------------------------------
(* The inductive invariant.                                                *)

\* A delivery under way is of a message that exists; what it created it holds,
\* and what it is about to count it stored, and woke nobody for yet.
Tasks ==
  \A i \in Slots :
    LET do == task[i]
    IN /\ do.step # "idle" => way[i[1]] # None
       /\ do.created => do.step \in {"link", "add", "touch"}
       /\ do.step = "touch" =>
            /\ stored[i[1]] = [thread |-> do.thread, by |-> "webhook"]
            /\ fired[i[1]] = 0

\* One delivery of a message is about to count it.
OneCounts ==
  \A i, k \in Slots :
    i[1] = k[1] /\ task[i].step = "touch" /\ task[k].step = "touch" => i = k

\* A reply exists for the provider once it was taken, and is counted once stored.
Answers ==
  \A m \in Replies :
    /\ reply[m][1] \in {"none", "send"} => way[m] = None
    /\ reply[m][1] \in {"send", "add", "touch"} => reply[m][2] \in DOMAIN threads
    /\ reply[m][1] = "touch" =>
         /\ stored[m] = [thread |-> reply[m][2], by |-> "team"]
         /\ fired[m] = 0

\* Nobody is woken twice, nor for what is not stored.
Fired ==
  \A m \in Messages :
    /\ stored[m] = None => fired[m] = 0
    /\ fired[m] <= IF m \in Inbound THEN 1
         ELSE IF stored[m] # None /\ stored[m].by = "team" THEN 1 ELSE 0

\* What came in to t and is not about to be counted.
Counted(t) ==
  {m \in Inbound :
     /\ stored[m] # None /\ stored[m].thread = t
     /\ ~ \E i \in Slots : i[1] = m /\ task[i].step = "touch"}

Unread == \A t \in DOMAIN threads : threads[t].unread <= Cardinality(Counted(t))

\* What is stored and woke nobody is being delivered, or its delivery broke.
Owed ==
  \A m \in Inbound \ hurt : stored[m] # None /\ fired[m] = 0 =>
    \E i \in Slots : i[1] = m /\ task[i].step = "touch"

\* So is a new conversation nobody was told of.
Greets ==
  \A t \in DOMAIN threads \ greeted :
    threads[t].opener \in Inbound \ hurt =>
      \E i \in Slots : i[1] = threads[t].opener /\ task[i].created /\ task[i].thread = t

WokenInv == TypeOK /\ Tasks /\ OneCounts /\ Answers /\ Fired /\ Unread /\ Owed /\ Greets

\* Messages are addressed as they may be.
Addressed == \A m \in Messages : way[m] # None => way[m] \in Ways[m]

\* A number of the contact c.
NumberOf(p, c) == \E m \in Messages : \E w \in Ways[m] : Contact[m] = c /\ p = w.phone

\* A name of the contact c.
NameOf(u, c) == \E m \in Messages : \E w \in Ways[m] : Contact[m] = c /\ u \in formas(w)

\* A conversation has the names of the contact it was opened for.
Named ==
  \A t \in DOMAIN threads :
    LET c == Contact[threads[t].opener]
    IN /\ NameOf(threads[t].user, c)
       /\ threads[t].phone # None => NumberOf(threads[t].phone, c)

\* A delivery holds a conversation of its contact, and the number it showed.
Holds ==
  \A i \in Slots :
    LET c == Contact[i[1]]
    IN /\ task[i].step \in {"identify", "link", "add", "touch"} =>
            Contact[threads[task[i].thread].opener] = c
       /\ task[i].step = "identify" =>
            /\ task[i].phone # None => NumberOf(task[i].phone, c)
            /\ way[i[1]].phone # None => task[i].phone # None

\* Every message of c showed its number.
Shows(c) == \A m \in Messages : Contact[m] = c /\ way[m] # None => way[m].phone # None

\* Then its conversations have it.
Numbered ==
  \A t \in DOMAIN threads :
    Shows(Contact[threads[t].opener]) => threads[t].phone # None

ThreadInv == WokenInv /\ Addressed /\ Named /\ Holds /\ Numbered /\ OneThread

-----------------------------------------------------------------------------
(* Names and numbers.                                                      *)

\* A way of addressing a message shows a name that is somebody's.
LEMMA WaysName ==
  ASSUME NEW m \in Messages, NEW w \in Ways[m]
  PROVE  /\ w \in Way /\ w # None
         /\ channelUserId(w) \in Lids \cup Phones
         /\ formas(w) \subseteq Lids \cup Phones
         /\ formas(w) \subseteq Names(w)
         /\ w.phone # None => w.phone \in formas(w) /\ Twin[w.phone] \in formas(w)
<1>1. w \in Way /\ w # None /\ (w.lid # None \/ w.phone # None) BY InboxAssumption
<1>2. w.lid \in Lids \cup {None} /\ w.phone \in Phones \cup {None} BY <1>1 DEF Way
<1>3. channelUserId(w) \in {w.lid, w.phone} \ {None} BY <1>1 DEF channelUserId
<1>4. \A p \in Phones : Twin[p] \in Phones BY InboxAssumption
<1>5. channelUserId(w) \in Lids \cup Phones BY <1>2, <1>3
<1>6. CASE w.phone = None
  BY <1>1, <1>2, <1>3, <1>5, <1>6 DEF formas, Names
<1>7. CASE w.phone # None
  <2>1. formas(w) = {channelUserId(w), w.phone, Twin[w.phone]}
    BY <1>7 DEF formas, phoneVariants
  <2>2. Names(w) = {w.lid, w.phone, Twin[w.phone]} BY <1>2, <1>7 DEF Names
  <2> QED BY <1>1, <1>2, <1>3, <1>4, <1>5, <1>7, <2>1, <2>2
<1> QED BY <1>6, <1>7

\* The customer of a number is one of the cards or nobody.
LEMMA CustomerKnown ==
  ASSUME NEW w
  PROVE  clientePeloTelefone(w) \in Cards \cup {None}
<1> DEFINE found == {c \in Cards : w.phone # None /\ CardPhone[c] \in phoneVariants(w.phone)}
<1>1. CASE Cardinality(found) = 1
  <2>1. found # {} BY <1>1, FS_EmptySet
  <2>2. (CHOOSE c \in found : TRUE) \in found BY <2>1
  <2> HIDE DEF found
  <2>3. clientePeloTelefone(w) = CHOOSE c \in found : TRUE BY <1>1 DEF clientePeloTelefone, found
  <2>4. found \subseteq Cards BY DEF found
  <2> QED BY <2>2, <2>3, <2>4
<1>2. CASE Cardinality(found) # 1 BY <1>2 DEF clientePeloTelefone
<1> QED BY <1>1, <1>2

-----------------------------------------------------------------------------
(* Types.                                                                  *)

\* What is counted in a conversation is at most what there is, and a message
\* about to be counted is not.
LEMMA CountedFew ==
  ASSUME NEW t
  PROVE  /\ IsFiniteSet(Counted(t)) /\ Cardinality(Counted(t)) \in Nat
         /\ Cardinality(Counted(t)) <= Cardinality(Messages)
         /\ Cardinality(Messages) \in Nat
         /\ \A m \in Messages \ Counted(t) :
              Cardinality(Counted(t)) + 1 <= Cardinality(Messages)
<1>1. Counted(t) \subseteq Messages BY InboxAssumption DEF Counted
<1>2. IsFiniteSet(Messages) BY InboxAssumption
<1>3. IsFiniteSet(Counted(t)) /\ Cardinality(Counted(t)) <= Cardinality(Messages)
  BY <1>1, <1>2, FS_Subset
<1>4. Cardinality(Counted(t)) \in Nat /\ Cardinality(Messages) \in Nat
  BY <1>2, <1>3, FS_CardinalityType
<1>5. ASSUME NEW m \in Messages \ Counted(t)
      PROVE  Cardinality(Counted(t)) + 1 <= Cardinality(Messages)
  <2>1. Cardinality(Counted(t) \cup {m}) = Cardinality(Counted(t)) + 1
    BY <1>3, FS_AddElement
  <2>2. Counted(t) \cup {m} \subseteq Messages BY <1>1
  <2> QED BY <1>2, <2>1, <2>2, FS_Subset
<1> QED BY <1>3, <1>4, <1>5

\* The counts stay within the messages there are.
LEMMA TouchedType ==
  ASSUME WokenInv, NEW m \in Messages, NEW t \in DOMAIN threads,
         m \in Inbound => m \notin Counted(t)
  PROVE  Touched(t, m) \in Seq(Thread) /\ Len(Touched(t, m)) = Len(threads)
<1>1. threads \in Seq(Thread) /\ threads[t] \in Thread BY DEF WokenInv, TypeOK
<1>2. threads[t].unread \in Nat /\ threads[t].unread <= Cardinality(Counted(t))
  BY <1>1 DEF WokenInv, Unread, Thread
<1> DEFINE u == IF m \in Inbound THEN threads[t].unread + 1 ELSE 0
<1>3. u \in 0 .. Cardinality(Messages) BY <1>2, CountedFew
<1>4. Touched(t, m) = [threads EXCEPT ![t] = [threads[t] EXCEPT !.unread = u]]
  BY DEF Touched
<1> HIDE DEF u
<1>5. [threads[t] EXCEPT !.unread = u] \in Thread BY <1>1, <1>3 DEF Thread
<1> QED BY <1>1, <1>4, <1>5

\* A request that ends leaves values of their kind.
LEMMA ThrowsType ==
  ASSUME TypeOK, NEW i \in Slots, Throws(i)
  PROVE  /\ task' \in [Slots -> Task]
         /\ \A k \in Slots :
              task'[k].step \in {"identify", "link", "add", "touch"} =>
                task'[k].thread \in DOMAIN threads
<1>1. Idle \in Task BY DEF Idle, Task, Steps
<1>2. task' = [task EXCEPT ![i] = Idle] BY DEF Throws
<1> QED BY <1>1, <1>2 DEF TypeOK, Idle

\* What is looked up is a conversation as the delivery will hold it.
LEMMA SearchesType ==
  ASSUME TypeOK, Addressed, Tasks, NEW i \in Slots, Searches(i)
  PROVE  TypeOK'
<1>1. i[1] \in Messages /\ way[i[1]] \in Ways[i[1]]
  BY InboxAssumption DEF Searches, Addressed, Tasks
<1>2. way[i[1]] \in Way BY <1>1, WaysName
<1>3. task[i] \in Task BY DEF TypeOK
<1>4. UNCHANGED <<way, threads, stored, acked, reply, fired, greeted, hurt, faults>>
  BY DEF Searches
<1>5. CASE task' = [task EXCEPT ![i].step = "open"]
  <2>1. [task[i] EXCEPT !.step = "open"] \in Task BY <1>3 DEF Task, Steps
  <2>2. task' = [task EXCEPT ![i] = [task[i] EXCEPT !.step = "open"]] BY <1>5
  <2> QED BY <1>4, <2>1, <2>2 DEF TypeOK, Task
<1>6. ASSUME NEW t \in DOMAIN threads, NEW f \in {"identify", "link", "add"},
             task' = [task EXCEPT ![i] =
               [task[i] EXCEPT !.thread = t,
                  !.phone = IF way[i[1]].phone = None THEN threads[t].phone ELSE way[i[1]].phone,
                  !.step = f]]
      PROVE  TypeOK'
  <2>0. threads \in Seq(Thread) BY DEF TypeOK
  <2>1. t \in Nat /\ threads[t].phone \in Phones \cup {None}
    <3>1. t \in 1 .. Len(threads) /\ threads[t] \in Thread BY <2>0
    <3> QED BY <3>1 DEF Thread
  <2>2. [task[i] EXCEPT !.thread = t,
           !.phone = IF way[i[1]].phone = None THEN threads[t].phone ELSE way[i[1]].phone,
           !.step = f] \in Task
    BY <1>2, <1>3, <2>1 DEF Task, Steps, Way
  <2> QED BY <1>4, <1>6, <2>2 DEF TypeOK, Task
<1>7. \A t \in Matches(way[i[1]]) : t \in DOMAIN threads BY DEF Matches
<1> QED BY <1>5, <1>6, <1>7 DEF Searches

\* A conversation is opened with values of their kind.
LEMMA OpensType ==
  ASSUME TypeOK, Addressed, Tasks, NEW i \in Slots, Opens(i)
  PROVE  TypeOK'
<1> DEFINE w == way[i[1]]
           new == [user |-> channelUserId(w), phone |-> w.phone,
                   customer |-> clientePeloTelefone(w), unread |-> 0, opener |-> i[1]]
<1>1. i[1] \in Messages /\ w \in Ways[i[1]]
  BY InboxAssumption DEF Opens, Addressed, Tasks
<1>2. CASE Taken(new.user, 0)
  <2>1. Throws(i) /\ UNCHANGED <<hurt, faults>> BY <1>2 DEF Opens
  <2> QED BY <2>1, ThrowsType DEF Throws, TypeOK
<1>3. CASE ~ Taken(new.user, 0)
  <2>1. new \in Thread
    BY <1>1, WaysName, CustomerKnown, CountedFew DEF Thread, Way
  <2>2. /\ threads' = Append(threads, new)
        /\ task' = [task EXCEPT ![i] =
             [@ EXCEPT !.thread = Len(threads) + 1, !.created = TRUE,
                       !.step = IF new.customer = None THEN "link" ELSE "add"]]
        /\ UNCHANGED <<way, stored, acked, reply, fired, greeted, hurt, faults>>
    BY <1>3 DEF Opens
  <2> HIDE DEF new
  <2>3. /\ threads' \in Seq(Thread) /\ Len(threads') = Len(threads) + 1
        /\ DOMAIN threads' = DOMAIN threads \cup {Len(threads) + 1}
    BY <2>1, <2>2 DEF TypeOK
  <2>4. PICK f \in {"link", "add"} :
          task' = [task EXCEPT ![i] =
            [task[i] EXCEPT !.thread = Len(threads) + 1, !.created = TRUE, !.step = f]]
    BY <2>2
  <2>5. /\ [task[i] EXCEPT !.thread = Len(threads) + 1, !.created = TRUE, !.step = f] \in Task
        /\ Len(threads) \in Nat
    <3>1. task[i] \in Task /\ threads \in Seq(Thread) BY DEF TypeOK
    <3> DEFINE n == Len(threads) + 1
    <3>2. Len(threads) \in Nat /\ n \in Nat BY <3>1
    <3> HIDE DEF n
    <3>3. [task[i] EXCEPT !.thread = n, !.created = TRUE, !.step = f] \in Task
      BY <3>1, <3>2 DEF Task, Steps
    <3> QED BY <3>2, <3>3 DEF n
  <2> QED BY <2>2, <2>3, <2>4, <2>5 DEF TypeOK, Task
<1> QED BY <1>2, <1>3

\* So it is given another identity.
LEMMA IdentifiesType ==
  ASSUME TypeOK, Addressed, Tasks, NEW i \in Slots, Identifies(i)
  PROVE  TypeOK'
<1> DEFINE t == task[i].thread
           user == channelUserId(way[i[1]])
<1>1. i[1] \in Messages /\ way[i[1]] \in Ways[i[1]]
  BY InboxAssumption DEF Identifies, Addressed, Tasks
<1>2. CASE Taken(user, t)
  <2>1. Throws(i) /\ UNCHANGED <<hurt, faults>> BY <1>2 DEF Identifies
  <2> QED BY <2>1, ThrowsType DEF Throws, TypeOK
<1>3. CASE ~ Taken(user, t)
  <2>1. user \in Lids \cup Phones BY <1>1, WaysName
  <2>2. /\ threads' = [threads EXCEPT ![t].user = user, ![t].phone = task[i].phone]
        /\ task' = [task EXCEPT ![i].step =
                      IF threads[t].customer = None THEN "link" ELSE "add"]
        /\ UNCHANGED <<way, stored, acked, reply, fired, greeted, hurt, faults>>
    BY <1>3 DEF Identifies
  <2>3. t \in DOMAIN threads /\ threads \in Seq(Thread) /\ task[i].phone \in Phones \cup {None}
    BY DEF TypeOK, Identifies, Task
  <2> HIDE DEF t, user
  <2>4. [threads[t] EXCEPT !.user = user, !.phone = task[i].phone] \in Thread
    <3>1. threads[t] \in Thread BY <2>3
    <3> QED BY <2>1, <2>3, <3>1 DEF Thread
  <2>5. threads' = [threads EXCEPT ![t] =
                      [threads[t] EXCEPT !.user = user, !.phone = task[i].phone]]
    BY <2>2, <2>3
  <2>6. threads' \in Seq(Thread) /\ DOMAIN threads' = DOMAIN threads
    BY <2>3, <2>4, <2>5
  <2>7. PICK f \in {"link", "add"} :
          task' = [task EXCEPT ![i] = [task[i] EXCEPT !.step = f]]
    BY <2>2
  <2>8. [task[i] EXCEPT !.step = f] \in Task
    <3>1. task[i] \in Task BY DEF TypeOK
    <3> QED BY <3>1 DEF Task, Steps
  <2>9. /\ task' \in [Slots -> Task]
        /\ \A k \in Slots :
             task'[k].step \in {"identify", "link", "add", "touch"} =>
               task'[k].thread \in DOMAIN threads
    BY <2>3, <2>7, <2>8 DEF TypeOK, Task, t
  <2> QED BY <2>2, <2>6, <2>9 DEF TypeOK
<1> QED BY <1>2, <1>3

\* A step of a delivery under way, whose conversation stays the one it holds.
LEMMA MovesType ==
  ASSUME TypeOK, NEW i \in Slots, NEW f \in Steps,
         f \in {"identify", "link", "add", "touch"} => task[i].thread \in DOMAIN threads,
         task' = [task EXCEPT ![i].step = f]
  PROVE  /\ task' \in [Slots -> Task]
         /\ \A k \in Slots :
              task'[k].step \in {"identify", "link", "add", "touch"} =>
                task'[k].thread \in DOMAIN threads
<1>1. task[i] \in Task BY DEF TypeOK
<1>2. task' = [task EXCEPT ![i] = [task[i] EXCEPT !.step = f]] OBVIOUS
<1>3. [task[i] EXCEPT !.step = f] \in Task BY <1>1 DEF Task
<1> QED BY <1>2, <1>3 DEF TypeOK, Task

LEMMA LinksType ==
  ASSUME TypeOK, NEW i \in Slots, Links(i)
  PROVE  TypeOK'
<1> DEFINE c == clientePeloTelefone(way[i[1]])
           t == task[i].thread
<1>1. t \in DOMAIN threads /\ threads \in Seq(Thread) /\ c \in Cards \cup {None}
  BY CustomerKnown DEF TypeOK, Links
<1>2. threads[t] \in Thread BY <1>1
<1> HIDE DEF c
<1>3. [threads[t] EXCEPT !.customer = c] \in Thread BY <1>1, <1>2 DEF Thread
<1>4. threads' = threads \/ threads' = [threads EXCEPT ![t] = [threads[t] EXCEPT !.customer = c]]
  BY DEF Links, c
<1>5. threads' \in Seq(Thread) /\ DOMAIN threads' = DOMAIN threads
  BY <1>1, <1>3, <1>4
<1>6. /\ task' \in [Slots -> Task]
      /\ \A k \in Slots :
           task'[k].step \in {"identify", "link", "add", "touch"} =>
             task'[k].thread \in DOMAIN threads
  BY <1>1, MovesType DEF Links, Steps
<1> QED BY <1>5, <1>6 DEF TypeOK, Links

LEMMA AddsType ==
  ASSUME TypeOK, NEW i \in Slots, Adds(i)
  PROVE  TypeOK'
<1>0. i[1] \in Messages BY InboxAssumption
<1>1. CASE Fresh(i[1])
  <2>1. /\ stored' = [stored EXCEPT ![i[1]] = [thread |-> task[i].thread, by |-> "webhook"]]
        /\ task' = [task EXCEPT ![i].step = "touch"]
        /\ UNCHANGED <<way, threads, acked, reply, fired, greeted, raced, hurt, faults>>
    BY <1>1 DEF Adds
  <2>2. task[i].thread \in DOMAIN threads /\ threads \in Seq(Thread) BY DEF TypeOK, Adds
  <2>3. /\ task' \in [Slots -> Task]
        /\ \A k \in Slots :
             task'[k].step \in {"identify", "link", "add", "touch"} =>
               task'[k].thread \in DOMAIN threads
    BY <2>1, <2>2, MovesType DEF Steps
  <2> QED BY <1>0, <2>1, <2>2, <2>3 DEF TypeOK
<1>2. CASE ~ Fresh(i[1])
  <2>1. Throws(i) /\ UNCHANGED <<raced, faults>> /\ hurt' \subseteq hurt \cup {i[1]}
    BY <1>2 DEF Adds
  <2> QED BY <1>0, <2>1, ThrowsType DEF Throws, TypeOK
<1> QED BY <1>1, <1>2

LEMMA TouchesType ==
  ASSUME WokenInv, NEW i \in Slots, Touches(i)
  PROVE  TypeOK'
<1> DEFINE m == i[1]
           t == task[i].thread
<1>1. m \in Messages /\ t \in DOMAIN threads /\ threads \in Seq(Thread)
  BY InboxAssumption DEF WokenInv, TypeOK, Touches
<1>2. m \notin Counted(t) BY DEF Counted, Touches
<1>3. threads' \in Seq(Thread) /\ DOMAIN threads' = DOMAIN threads
  BY <1>1, <1>2, TouchedType DEF Touches
<1>4. Idle \in Task BY DEF Idle, Task, Steps
<1>5. task' = [task EXCEPT ![i] = Idle] BY DEF Touches
<1>6. /\ task' \in [Slots -> Task]
      /\ \A k \in Slots :
           task'[k].step \in {"identify", "link", "add", "touch"} =>
             task'[k].thread \in DOMAIN threads
  BY <1>4, <1>5 DEF WokenInv, TypeOK, Idle
<1>7. greeted' \subseteq DOMAIN threads /\ hurt' \subseteq Messages /\ acked' \subseteq Messages
  BY <1>1 DEF WokenInv, TypeOK, Touches
<1>8. fired' \in [Messages -> Nat]
  <2>1. fired \in [Messages -> Nat] /\ fired[m] + 1 \in Nat BY <1>1 DEF WokenInv, TypeOK
  <2>2. fired' = fired \/ fired' = [fired EXCEPT ![m] = fired[m] + 1] BY DEF Touches
  <2> QED BY <2>1, <2>2
<1>9. faults' \in 0 .. MaxFaults
  <2>1. faults \in 0 .. MaxFaults /\ MaxFaults \in Nat
    BY InboxAssumption DEF WokenInv, TypeOK
  <2>2. faults' = faults \/ (faults < MaxFaults /\ faults' = faults + 1) BY DEF Touches
  <2> QED BY <2>1, <2>2
<1> QED BY <1>3, <1>6, <1>7, <1>8, <1>9 DEF WokenInv, TypeOK, Touches

LEMMA ReadsType ==
  ASSUME TypeOK, NEW t \in DOMAIN threads, Reads(t)
  PROVE  TypeOK'
<1>1. threads \in Seq(Thread) /\ threads[t] \in Thread BY DEF TypeOK
<1>2. 0 \in 0 .. Cardinality(Messages) BY CountedFew
<1>3. [threads[t] EXCEPT !.unread = 0] \in Thread BY <1>1, <1>2 DEF Thread
<1>4. threads' = [threads EXCEPT ![t] = [threads[t] EXCEPT !.unread = 0]] BY DEF Reads
<1>5. threads' \in Seq(Thread) /\ DOMAIN threads' = DOMAIN threads BY <1>1, <1>3, <1>4
<1> QED BY <1>5 DEF TypeOK, Reads

LEMMA ReplyTouchesType ==
  ASSUME WokenInv, NEW m \in Replies, ReplyTouches(m)
  PROVE  TypeOK'
<1>1. m \in Messages /\ m \notin Inbound BY InboxAssumption
<1>2. reply[m][2] \in DOMAIN threads /\ threads \in Seq(Thread)
  BY DEF WokenInv, Answers, ReplyTouches, TypeOK
<1>3. threads' \in Seq(Thread) /\ DOMAIN threads' = DOMAIN threads
  BY <1>1, <1>2, TouchedType DEF ReplyTouches
<1> QED BY <1>1, <1>3 DEF WokenInv, TypeOK, ReplyTouches, Becomes

\* The type invariant is kept.
LEMMA TypeStep ==
  ASSUME WokenInv, Addressed, [Next]_vars
  PROVE  TypeOK'
<1> USE DEF WokenInv
<1>1. ASSUME NEW m \in Messages, Writes(m) PROVE TypeOK'
  BY <1>1, WaysName DEF TypeOK, Writes
<1>2. ASSUME NEW i \in Slots, Looks(i) PROVE TypeOK'
  <2>1. threads \in Seq(Thread) /\ i[1] \in Messages BY InboxAssumption DEF TypeOK
  <2>2. CASE task' = task BY <1>2, <2>1, <2>2, InboxAssumption DEF TypeOK, Looks
  <2>3. CASE task' = [task EXCEPT ![i].step = "search"]
    <3>1. /\ task' \in [Slots -> Task]
          /\ \A k \in Slots :
               task'[k].step \in {"identify", "link", "add", "touch"} =>
                 task'[k].thread \in DOMAIN threads
      BY <2>1, <2>3, MovesType DEF Steps
    <3> QED BY <1>2, <2>1, <3>1, InboxAssumption DEF TypeOK, Looks
  <2> QED BY <1>2, <2>2, <2>3 DEF Looks
<1>3. ASSUME NEW i \in Slots, Breaks(i) PROVE TypeOK'
  <2>1. i[1] \in Messages /\ Throws(i) /\ hurt' \subseteq hurt \cup {i[1]}
    BY <1>3, InboxAssumption DEF Breaks
  <2>2. faults' \in 0 .. MaxFaults BY <1>3, InboxAssumption DEF Breaks, TypeOK
  <2> QED BY <2>1, <2>2, ThrowsType DEF TypeOK, Throws
<1>4. ASSUME NEW i \in Slots, Receives(i) PROVE TypeOK'
  BY <1>2, <1>4, SearchesType, OpensType, IdentifiesType, LinksType, AddsType, TouchesType
     DEF Receives
<1>5. ASSUME NEW m \in Replies, NEW t \in DOMAIN threads, SendBegins(m, t) PROVE TypeOK'
  BY <1>5 DEF TypeOK, SendBegins
<1>6. ASSUME NEW m \in Replies,
             ProviderTakes(m) \/ ReplyAdds(m) \/ ReplyTouches(m) \/ ReplyFails(m)
      PROVE  TypeOK'
  <2>1. m \in Messages BY InboxAssumption
  <2>2. CASE ProviderTakes(m)
    BY <2>1, <2>2, WaysName DEF TypeOK, ProviderTakes, Becomes
  <2>3. CASE ReplyAdds(m)
    <3>1. reply[m][2] \in DOMAIN threads BY <2>3 DEF Answers, ReplyAdds
    <3>2. stored' \in [Messages -> [thread : DOMAIN threads, by : {"webhook", "team"}] \cup {None}]
      <4> DEFINE row == [thread |-> reply[m][2], by |-> "team"]
      <4>1. row \in [thread : DOMAIN threads, by : {"webhook", "team"}] BY <3>1
      <4> HIDE DEF row
      <4>2. stored' = stored \/ stored' = [stored EXCEPT ![m] = row]
        BY <2>3 DEF ReplyAdds, row
      <4> QED BY <2>1, <4>1, <4>2 DEF TypeOK
    <3>3. \E f \in {"touch", "failed"} : reply' = [reply EXCEPT ![m] = <<f, reply[m][2]>>]
      BY <2>3 DEF ReplyAdds, Becomes
    <3> QED BY <2>3, <3>1, <3>2, <3>3 DEF TypeOK, ReplyAdds
  <2>4. CASE ReplyTouches(m) BY <2>4, ReplyTouchesType
  <2>5. CASE ReplyFails(m)
    BY <2>1, <2>5, InboxAssumption DEF TypeOK, ReplyFails, Becomes
  <2> QED BY <1>6, <2>2, <2>3, <2>4, <2>5
<1>7. ASSUME NEW t \in DOMAIN threads, Reads(t) PROVE TypeOK' BY <1>7, ReadsType
<1>8. CASE UNCHANGED vars BY <1>8 DEF TypeOK, vars
<1> QED BY <1>1, <1>3, <1>4, <1>5, <1>6, <1>7, <1>8 DEF Next

-----------------------------------------------------------------------------
(* Automations wake once.                                                  *)

\* What is counted depends on what is stored and who is about to count it.
LEMMA CountedGrows ==
  ASSUME NEW t, \A m \in Inbound : stored[m] # None /\ stored[m].thread = t =>
                    stored'[m] # None /\ stored'[m].thread = t,
         \A i \in Slots : task'[i].step = "touch" =>
           task[i].step = "touch" \/ i[1] \notin Inbound \/ stored[i[1]] = None
  PROVE  Cardinality(Counted(t)) <= Cardinality(Counted(t)') /\ Cardinality(Counted(t)') \in Nat
<1>1. Counted(t) \subseteq Counted(t)' BY DEF Counted
<1>2. Counted(t)' \subseteq Messages BY InboxAssumption DEF Counted
<1>3. IsFiniteSet(Counted(t)') BY <1>2, InboxAssumption, FS_Subset
<1> QED BY <1>1, <1>3, FS_Subset, FS_CardinalityType

\* A step that stores nothing, wakes nobody and drops no delivery that created
\* or is about to count.
LEMMA QuietStep ==
  ASSUME WokenInv, TypeOK', UNCHANGED <<stored, fired, greeted, hurt>>,
         \A i \in Slots : task'[i].step = "touch" <=> task[i].step = "touch",
         \A i \in Slots : task[i].created =>
           task'[i].created /\ task'[i].thread = task[i].thread,
         DOMAIN threads' = DOMAIN threads,
         \A t \in DOMAIN threads :
           threads'[t].opener = threads[t].opener /\ threads'[t].unread <= threads[t].unread
  PROVE  OneCounts' /\ Fired' /\ Unread' /\ Owed' /\ Greets'
<1>1. OneCounts' /\ Fired' /\ Owed' BY DEF WokenInv, OneCounts, Fired, Owed
<1>2. Greets' BY DEF WokenInv, Greets
<1>3. ASSUME NEW t \in DOMAIN threads PROVE threads'[t].unread <= Cardinality(Counted(t)')
  <2>1. threads[t] \in Thread /\ threads'[t] \in Thread BY DEF WokenInv, TypeOK
  <2>2. threads[t].unread \in Nat /\ threads'[t].unread \in Nat BY <2>1 DEF Thread
  <2>3. threads[t].unread <= Cardinality(Counted(t)) BY DEF WokenInv, Unread
  <2>4. Cardinality(Counted(t)) <= Cardinality(Counted(t)') /\ Cardinality(Counted(t)') \in Nat
    BY CountedGrows
  <2> QED BY <2>2, <2>3, <2>4, CountedFew
<1> QED BY <1>1, <1>2, <1>3 DEF Unread

\* A delivery that ends with an error is remembered if it had written.
LEMMA ThrowsWoken ==
  ASSUME WokenInv, TypeOK', NEW i \in Slots, Throws(i), hurt \subseteq hurt',
         task[i].created \/ task[i].step = "touch" => i[1] \in hurt'
  PROVE  WokenInv'
<1>1. task' = [task EXCEPT ![i] = Idle] /\ UNCHANGED <<way, threads, stored, acked, reply, fired, greeted>>
  BY DEF Throws
<1>2. \A k \in Slots : task'[k] = IF k = i THEN Idle ELSE task[k] BY <1>1 DEF WokenInv, TypeOK
<1>3. Tasks' /\ OneCounts' /\ Answers' /\ Fired'
  BY <1>1, <1>2 DEF WokenInv, Tasks, OneCounts, Answers, Fired, Idle
<1>4. Owed' BY <1>1, <1>2 DEF WokenInv, Owed
<1>5. Greets' BY <1>1, <1>2 DEF WokenInv, Greets
<1>6. ASSUME NEW t \in DOMAIN threads PROVE threads'[t].unread <= Cardinality(Counted(t)')
  <2>1. threads[t] \in Thread BY DEF WokenInv, TypeOK
  <2>2. threads[t].unread \in Nat /\ threads'[t].unread = threads[t].unread
    BY <1>1, <2>1 DEF Thread
  <2>3. threads[t].unread <= Cardinality(Counted(t)) BY DEF WokenInv, Unread
  <2>4. Cardinality(Counted(t)) <= Cardinality(Counted(t)') /\ Cardinality(Counted(t)') \in Nat
    BY <1>1, <1>2, CountedGrows DEF Idle
  <2> QED BY <2>2, <2>3, <2>4, CountedFew
<1> QED BY <1>1, <1>3, <1>4, <1>5, <1>6 DEF WokenInv, Unread

\* A new conversation holds nothing, and its delivery will tell of it.
LEMMA OpensWoken ==
  ASSUME WokenInv, TypeOK', NEW i \in Slots, Opens(i)
  PROVE  WokenInv'
<1> DEFINE w == way[i[1]]
           new == [user |-> channelUserId(w), phone |-> w.phone,
                   customer |-> clientePeloTelefone(w), unread |-> 0, opener |-> i[1]]
           n == Len(threads) + 1
<1>1. CASE Taken(new.user, 0)
  <2>1. Throws(i) /\ hurt' = hurt BY <1>1 DEF Opens
  <2>2. ~ task[i].created /\ task[i].step # "touch" BY DEF WokenInv, Tasks, Opens
  <2> QED BY <2>1, <2>2, ThrowsWoken
<1>2. CASE ~ Taken(new.user, 0)
  <2>1. /\ threads' = Append(threads, new)
        /\ task' = [task EXCEPT ![i] =
             [@ EXCEPT !.thread = Len(threads) + 1, !.created = TRUE,
                       !.step = IF new.customer = None THEN "link" ELSE "add"]]
        /\ UNCHANGED <<way, stored, acked, reply, fired, greeted, hurt, faults>>
    BY <1>2 DEF Opens
  <2>2. threads \in Seq(Thread) /\ threads' \in Seq(Thread) BY DEF WokenInv, TypeOK
  <2> HIDE DEF new
  <2>3. /\ DOMAIN threads' = DOMAIN threads \cup {n} /\ n \notin DOMAIN threads
        /\ \A t \in DOMAIN threads : threads'[t] = threads[t]
        /\ threads'[n] = new
    BY <2>1, <2>2
  <2>4. new.unread = 0 /\ new.opener = i[1] BY DEF new
  <2>5. /\ task'[i].created /\ task'[i].thread = n /\ task'[i].step \in {"link", "add"}
        /\ \A k \in Slots : k # i => task'[k] = task[k]
        /\ task[i].step = "open"
    <3>1. task \in [Slots -> Task] /\ task[i] \in Task BY DEF WokenInv, TypeOK
    <3> QED BY <2>1, <3>1 DEF Task, Opens
  <2>6. Tasks' BY <2>1, <2>5 DEF WokenInv, Tasks
  <2>7. OneCounts' /\ Fired' /\ Owed' BY <2>1, <2>5 DEF WokenInv, OneCounts, Fired, Owed
  <2>8. Answers' BY <2>1, <2>3 DEF WokenInv, Answers
  <2>9. Greets'
    <3>1. ~ task[i].created BY <2>5 DEF WokenInv, Tasks
    <3> QED BY <2>1, <2>3, <2>4, <2>5, <3>1 DEF WokenInv, Greets
  <2>10. ASSUME NEW t \in DOMAIN threads' PROVE threads'[t].unread <= Cardinality(Counted(t)')
    <3>1. Cardinality(Counted(t)) <= Cardinality(Counted(t)') /\ Cardinality(Counted(t)') \in Nat
      BY <2>1, <2>5, CountedGrows
    <3>2. CASE t = n BY <2>3, <2>4, <3>1, <3>2
    <3>3. CASE t \in DOMAIN threads
      <4>1. threads[t] \in Thread BY <2>2, <3>3
      <4>2. threads[t].unread \in Nat /\ threads'[t].unread = threads[t].unread
        BY <2>3, <3>3, <4>1 DEF Thread
      <4> QED BY <3>1, <3>3, <4>2, CountedFew DEF WokenInv, Unread
    <3> QED BY <2>3, <3>2, <3>3
  <2> QED BY <2>6, <2>7, <2>8, <2>9, <2>10 DEF WokenInv, Unread
<1> QED BY <1>1, <1>2

\* Another identity changes no count.
LEMMA IdentifiesWoken ==
  ASSUME WokenInv, TypeOK', NEW i \in Slots, Identifies(i)
  PROVE  WokenInv'
<1> DEFINE t == task[i].thread
           user == channelUserId(way[i[1]])
<1>0. ~ task[i].created /\ task[i].step = "identify" BY DEF WokenInv, Tasks, Identifies
<1>1. CASE Taken(user, t)
  <2>1. Throws(i) /\ hurt' = hurt BY <1>1 DEF Identifies
  <2> QED BY <1>0, <2>1, ThrowsWoken
<1>2. CASE ~ Taken(user, t)
  <2>1. /\ threads' = [threads EXCEPT ![t].user = user, ![t].phone = task[i].phone]
        /\ task' = [task EXCEPT ![i].step =
                      IF threads[t].customer = None THEN "link" ELSE "add"]
        /\ UNCHANGED <<way, stored, acked, reply, fired, greeted, hurt, faults>>
    BY <1>2 DEF Identifies
  <2> HIDE DEF user
  <2>2. threads \in Seq(Thread) /\ t \in DOMAIN threads BY DEF WokenInv, TypeOK, Identifies
  <2>3. /\ DOMAIN threads' = DOMAIN threads
        /\ \A s \in DOMAIN threads : threads[s] \in Thread
    BY <2>1, <2>2
  <2>4. \A s \in DOMAIN threads :
          threads'[s].opener = threads[s].opener /\ threads'[s].unread = threads[s].unread
    BY <2>1, <2>2, <2>3 DEF Thread
  <2>5. /\ task'[i].step \in {"link", "add"} /\ ~ task'[i].created
        /\ \A k \in Slots : k # i => task'[k] = task[k]
    <3>1. task \in [Slots -> Task] /\ task[i] \in Task BY DEF WokenInv, TypeOK
    <3> QED BY <1>0, <2>1, <3>1 DEF Task
  <2>6. Tasks' /\ Answers' BY <1>0, <2>1, <2>3, <2>5 DEF WokenInv, Tasks, Answers
  <2>7. \A s \in DOMAIN threads : threads'[s].unread <= threads[s].unread
    <3>1. \A s \in DOMAIN threads : threads[s].unread \in Nat BY <2>3 DEF Thread
    <3> QED BY <2>4, <3>1
  <2>8. OneCounts' /\ Fired' /\ Unread' /\ Owed' /\ Greets'
    BY <1>0, <2>1, <2>3, <2>4, <2>5, <2>7, QuietStep
  <2> QED BY <2>6, <2>8 DEF WokenInv
<1> QED BY <1>1, <1>2

\* Nor does a customer.
LEMMA LinksWoken ==
  ASSUME WokenInv, TypeOK', NEW i \in Slots, Links(i)
  PROVE  WokenInv'
<1> DEFINE c == clientePeloTelefone(way[i[1]])
           t == task[i].thread
<1> HIDE DEF c
<1>1. /\ threads' = threads \/ threads' = [threads EXCEPT ![t].customer = c]
      /\ task' = [task EXCEPT ![i].step = "add"] /\ task[i].step = "link"
      /\ UNCHANGED <<way, stored, acked, reply, fired, greeted, raced, hurt, faults>>
  BY DEF Links, c
<1>2. threads \in Seq(Thread) /\ t \in DOMAIN threads BY <1>1 DEF WokenInv, TypeOK
<1>3. /\ DOMAIN threads' = DOMAIN threads
      /\ \A s \in DOMAIN threads : threads[s] \in Thread
  BY <1>1, <1>2
<1>4. \A s \in DOMAIN threads :
        threads'[s].opener = threads[s].opener /\ threads'[s].unread = threads[s].unread
  <2>1. CASE threads' = threads BY <2>1
  <2>2. CASE threads' = [threads EXCEPT ![t].customer = c]
    BY <1>2, <1>3, <2>2 DEF Thread
  <2> QED BY <1>1, <2>1, <2>2
<1>5. /\ task'[i].step = "add" /\ task'[i].created = task[i].created
      /\ task'[i].thread = task[i].thread
      /\ \A k \in Slots : k # i => task'[k] = task[k]
  <2>1. task \in [Slots -> Task] /\ task[i] \in Task BY DEF WokenInv, TypeOK
  <2> QED BY <1>1, <2>1 DEF Task
<1>6. Tasks' /\ Answers' BY <1>1, <1>3, <1>5 DEF WokenInv, Tasks, Answers
<1>7. \A s \in DOMAIN threads : threads'[s].unread <= threads[s].unread
  <2>1. \A s \in DOMAIN threads : threads[s].unread \in Nat BY <1>3 DEF Thread
  <2> QED BY <1>4, <2>1
<1>8. OneCounts' /\ Fired' /\ Unread' /\ Owed' /\ Greets'
  BY <1>1, <1>3, <1>4, <1>5, <1>7, QuietStep
<1> QED BY <1>6, <1>8 DEF WokenInv

\* A message stored for the first time is about to be counted, once.
LEMMA AddsWoken ==
  ASSUME WokenInv, TypeOK', NEW i \in Slots, Adds(i)
  PROVE  WokenInv'
<1> DEFINE m == i[1]
<1>0. m \in Messages BY InboxAssumption
<1>1. CASE Fresh(m)
  <2>1. /\ stored' = [stored EXCEPT ![m] = [thread |-> task[i].thread, by |-> "webhook"]]
        /\ task' = [task EXCEPT ![i].step = "touch"] /\ stored[m] = None
        /\ UNCHANGED <<way, threads, acked, reply, fired, greeted, hurt>>
    BY <1>1 DEF Adds, Fresh
  <2>2. /\ task'[i].step = "touch" /\ task'[i].created = task[i].created
        /\ task'[i].thread = task[i].thread /\ task[i].step = "add"
        /\ \A k \in Slots : k # i => task'[k] = task[k]
    <3>1. task \in [Slots -> Task] /\ task[i] \in Task BY DEF WokenInv, TypeOK
    <3> QED BY <2>1, <3>1 DEF Task, Adds
  <2>3. /\ stored'[m] = [thread |-> task[i].thread, by |-> "webhook"]
        /\ \A n \in Messages : n # m => stored'[n] = stored[n]
        /\ stored'[m] # None
    <3>1. [thread |-> task[i].thread, by |-> "webhook"] \in [thread : Nat, by : {"webhook", "team"}]
      BY DEF WokenInv, TypeOK, Task
    <3>2. [thread |-> task[i].thread, by |-> "webhook"] # None BY <3>1, InboxAssumption
    <3> QED BY <1>0, <2>1, <3>2 DEF WokenInv, TypeOK
  <2>4. \A k \in Slots : k[1] = m => task[k].step # "touch"
    <3>1. ASSUME NEW k \in Slots, k[1] = m, task[k].step = "touch" PROVE FALSE
      <4>1. stored[m] = [thread |-> task[k].thread, by |-> "webhook"]
        BY <3>1 DEF WokenInv, Tasks
      <4>2. [thread |-> task[k].thread, by |-> "webhook"] \in [thread : Nat, by : {"webhook", "team"}]
        BY DEF WokenInv, TypeOK, Task
      <4> QED BY <2>1, <4>1, <4>2, InboxAssumption
    <3> QED BY <3>1
  <2>5. fired[m] = 0 BY <1>0, <2>1 DEF WokenInv, Fired
  <2>6. \A n \in Replies : n \in Messages /\ n \notin Inbound BY InboxAssumption
  <2>7. Tasks'
    <3>1. ASSUME NEW k \in Slots, task'[k].step = "touch"
          PROVE  /\ stored'[k[1]] = [thread |-> task'[k].thread, by |-> "webhook"]
                 /\ fired'[k[1]] = 0
      <4>1. CASE k = i BY <2>1, <2>2, <2>3, <2>5, <4>1
      <4>2. CASE k # i
        <5>1. k[1] \in Messages /\ k[1] # m /\ task'[k] = task[k]
          BY <2>2, <2>4, <3>1, <4>2, InboxAssumption
        <5> QED BY <2>1, <2>3, <3>1, <5>1 DEF WokenInv, Tasks
      <4> QED BY <4>1, <4>2
    <3> QED BY <2>1, <2>2, <3>1 DEF WokenInv, Tasks
  <2>8. OneCounts'
    BY <2>2, <2>4 DEF WokenInv, OneCounts
  <2>9. Answers'
    <3>1. \A n \in Replies : reply[n][1] = "touch" => n # m
      <4>1. ASSUME NEW n \in Replies, reply[n][1] = "touch" PROVE n # m
        <5>1. reply[n][2] \in DOMAIN threads /\ threads \in Seq(Thread)
          BY <4>1 DEF WokenInv, Answers, TypeOK
        <5>2. [thread |-> reply[n][2], by |-> "team"] \in [thread : Nat, by : {"webhook", "team"}]
          BY <5>1
        <5>3. stored[n] = [thread |-> reply[n][2], by |-> "team"]
          BY <4>1 DEF WokenInv, Answers
        <5> QED BY <2>1, <5>2, <5>3, InboxAssumption
      <4> QED BY <4>1
    <3> QED BY <2>1, <2>3, <2>6, <3>1 DEF WokenInv, Answers
  <2>10. Fired'
    BY <1>0, <2>1, <2>3, <2>5 DEF WokenInv, Fired, TypeOK
  <2>11. Owed' BY <1>0, <2>1, <2>2, <2>3, InboxAssumption DEF WokenInv, Owed
  <2>12. Greets' BY <2>1, <2>2 DEF WokenInv, Greets
  <2>13. ASSUME NEW t \in DOMAIN threads PROVE threads'[t].unread <= Cardinality(Counted(t)')
    <3>1. threads[t] \in Thread BY DEF WokenInv, TypeOK
    <3>2. threads[t].unread \in Nat /\ threads'[t].unread = threads[t].unread
      BY <2>1, <3>1 DEF Thread
    <3>3. threads[t].unread <= Cardinality(Counted(t)) BY DEF WokenInv, Unread
    <3>4. \A n \in Inbound : stored[n] # None /\ stored[n].thread = t =>
                               stored'[n] # None /\ stored'[n].thread = t
      BY <2>1, <2>3, InboxAssumption
    <3>5. Cardinality(Counted(t)) <= Cardinality(Counted(t)') /\ Cardinality(Counted(t)') \in Nat
      BY <2>1, <2>2, <3>4, CountedGrows
    <3> QED BY <3>2, <3>3, <3>5, CountedFew
  <2> QED BY <2>1, <2>7, <2>8, <2>9, <2>10, <2>11, <2>12, <2>13 DEF WokenInv, Unread
<1>2. CASE ~ Fresh(m)
  BY <1>2, ThrowsWoken DEF Adds, WokenInv, Tasks
<1> QED BY <1>1, <1>2

\* A conversation that is counted in, or read.
LEMMA TouchedUnread ==
  ASSUME TypeOK, NEW t \in DOMAIN threads, NEW m, threads' = Touched(t, m)
  PROVE  /\ DOMAIN threads' = DOMAIN threads
         /\ \A s \in DOMAIN threads : threads[s].unread \in Nat
         /\ \A s \in DOMAIN threads : threads'[s].opener = threads[s].opener
         /\ \A s \in DOMAIN threads \ {t} : threads'[s].unread = threads[s].unread
         /\ threads'[t].unread = IF m \in Inbound THEN threads[t].unread + 1 ELSE 0
<1>1. threads \in Seq(Thread) BY DEF TypeOK
<1>2. \A s \in DOMAIN threads : threads[s] \in Thread BY <1>1
<1> DEFINE u == IF m \in Inbound THEN threads[t].unread + 1 ELSE 0
<1>3. threads' = [threads EXCEPT ![t] = [threads[t] EXCEPT !.unread = u]] BY DEF Touched
<1> HIDE DEF u
<1>4. /\ DOMAIN threads' = DOMAIN threads
      /\ \A s \in DOMAIN threads \ {t} : threads'[s] = threads[s]
      /\ threads'[t] = [threads[t] EXCEPT !.unread = u]
  BY <1>1, <1>3
<1>5. threads'[t].unread = u /\ threads'[t].opener = threads[t].opener
  BY <1>2, <1>4 DEF Thread
<1>6. \A s \in DOMAIN threads : threads[s].unread \in Nat BY <1>2 DEF Thread
<1> QED BY <1>4, <1>5, <1>6 DEF u

\* What was stored is counted in its conversation and wakes its automations, or
\* its delivery broke.
LEMMA TouchesWoken ==
  ASSUME WokenInv, TypeOK', NEW i \in Slots, Touches(i)
  PROVE  WokenInv'
<1> DEFINE m == i[1]
           t == task[i].thread
<1>0. m \in Messages /\ t \in DOMAIN threads /\ (m \in Inbound => m \notin Replies)
  BY InboxAssumption DEF WokenInv, TypeOK, Touches
<1>1. /\ task[i].step = "touch" /\ threads' = Touched(t, m)
      /\ task' = [task EXCEPT ![i] = Idle]
      /\ UNCHANGED <<way, stored, reply>>
      /\ hurt \subseteq hurt' /\ greeted \subseteq greeted'
      /\ fired' = fired \/ (m \in Inbound /\ fired' = [fired EXCEPT ![m] = @ + 1])
  BY DEF Touches
<1>2. /\ stored[m] = [thread |-> t, by |-> "webhook"] /\ fired[m] = 0
      /\ stored[m].thread = t /\ stored[m] # None
  <2>1. stored[m] = [thread |-> t, by |-> "webhook"] /\ fired[m] = 0
    BY <1>1 DEF WokenInv, Tasks
  <2>2. [thread |-> t, by |-> "webhook"] \in [thread : Nat, by : {"webhook", "team"}]
    BY DEF WokenInv, TypeOK, Task
  <2> QED BY <2>1, <2>2, InboxAssumption
<1>3. /\ task'[i] = Idle /\ \A k \in Slots : k # i => task'[k] = task[k]
      /\ \A k \in Slots : k # i /\ k[1] = m => task[k].step # "touch"
  BY <1>1 DEF WokenInv, TypeOK, OneCounts
<1>4. \A n \in Messages : fired'[n] = fired[n] \/ (n = m /\ n \in Inbound /\ fired'[n] = 1)
  BY <1>0, <1>1, <1>2 DEF WokenInv, TypeOK
<1>5. Tasks'
  <2>1. ASSUME NEW k \in Slots, task'[k].step = "touch"
        PROVE  task'[k] = task[k] /\ fired'[k[1]] = fired[k[1]]
    <3>1. k # i BY <1>3, <2>1 DEF Idle
    <3>2. k[1] \in Messages /\ k[1] # m BY <1>3, <2>1, <3>1, InboxAssumption
    <3> QED BY <1>3, <1>4, <3>1, <3>2
  <2> QED BY <1>1, <1>3, <2>1 DEF WokenInv, Tasks, Idle
<1>6. OneCounts' BY <1>3 DEF WokenInv, OneCounts, Idle
<1>7. Answers'
  <2>1. \A n \in Replies : fired'[n] = fired[n] BY <1>4, InboxAssumption
  <2> QED BY <1>0, <1>1, <2>1, TouchedUnread DEF WokenInv, Answers
<1>8. Fired' BY <1>1, <1>2, <1>4 DEF WokenInv, Fired
<1>9. Owed'
  <2>1. m \in Inbound => fired'[m] = 1 \/ m \in hurt'
    BY <1>0, <1>2 DEF Touches, WokenInv, TypeOK
  <2> QED BY <1>1, <1>3, <1>4, <2>1, InboxAssumption DEF WokenInv, Owed
<1>10. Greets'
  <2>1. m \in Inbound /\ task[i].created => t \in greeted' \/ m \in hurt' BY DEF Touches
  <2>2. ASSUME NEW s \in DOMAIN threads \ greeted', threads[s].opener \in Inbound \ hurt'
        PROVE  \E k \in Slots : k[1] = threads[s].opener /\ task'[k].created /\ task'[k].thread = s
    <3>1. PICK k \in Slots : k[1] = threads[s].opener /\ task[k].created /\ task[k].thread = s
      BY <1>1, <2>2 DEF WokenInv, Greets
    <3>2. k # i BY <2>1, <2>2, <3>1
    <3> QED BY <1>3, <3>1, <3>2
  <2> QED BY <1>0, <1>1, <2>2, TouchedUnread DEF WokenInv, Greets
<1>11. ASSUME NEW s \in DOMAIN threads PROVE threads'[s].unread <= Cardinality(Counted(s)')
  <2>1. threads[s].unread \in Nat /\ threads[s].unread <= Cardinality(Counted(s))
    BY <1>0, <1>1, TouchedUnread DEF WokenInv, Unread
  <2>2. Cardinality(Counted(s)) <= Cardinality(Counted(s)') /\ Cardinality(Counted(s)') \in Nat
    BY <1>1, <1>3, CountedGrows DEF Idle
  <2>3. CASE s # t
    <3>1. threads'[s].unread = threads[s].unread BY <1>0, <1>1, <2>3, TouchedUnread DEF WokenInv
    <3> QED BY <2>1, <2>2, <3>1, CountedFew
  <2>4. CASE s = t /\ m \notin Inbound
    <3>1. threads'[s].unread = 0 BY <1>0, <1>1, <2>4, TouchedUnread DEF WokenInv
    <3> QED BY <2>2, <3>1
  <2>5. CASE s = t /\ m \in Inbound
    <3>1. threads'[s].unread = threads[s].unread + 1 BY <1>0, <1>1, <2>5, TouchedUnread DEF WokenInv
    <3>2. m \notin Counted(s) BY <1>1 DEF Counted
    <3>3. Cardinality(Counted(s) \cup {m}) = Cardinality(Counted(s)) + 1
      BY <3>2, CountedFew, FS_AddElement
    <3>4. Counted(s) \subseteq Counted(s)' BY <1>1, <1>3 DEF Counted, Idle
    <3>5. m \in Counted(s)' BY <1>1, <1>2, <1>3, <2>5 DEF Counted, Idle
    <3>6. Counted(s)' \subseteq Messages BY InboxAssumption DEF Counted
    <3>7. Cardinality(Counted(s) \cup {m}) <= Cardinality(Counted(s)')
      BY <3>4, <3>5, <3>6, InboxAssumption, FS_Subset
    <3> QED BY <2>1, <2>2, <3>1, <3>3, <3>7, CountedFew
  <2> QED BY <2>3, <2>4, <2>5
<1>12. DOMAIN threads' = DOMAIN threads BY <1>0, <1>1, TouchedUnread DEF WokenInv
<1> QED BY <1>5, <1>6, <1>7, <1>8, <1>9, <1>10, <1>11, <1>12 DEF WokenInv, Unread

\* The team reads a conversation.
LEMMA ReadsWoken ==
  ASSUME WokenInv, TypeOK', NEW t \in DOMAIN threads, Reads(t)
  PROVE  WokenInv'
<1>1. /\ threads' = [threads EXCEPT ![t].unread = 0]
      /\ UNCHANGED <<way, stored, acked, task, reply, fired, greeted, raced, hurt, faults>>
  BY DEF Reads
<1>2. /\ threads \in Seq(Thread)
      /\ \A s \in DOMAIN threads : threads[s] \in Thread
  BY DEF WokenInv, TypeOK
<1>3. /\ DOMAIN threads' = DOMAIN threads
      /\ \A s \in DOMAIN threads : threads'[s].opener = threads[s].opener
      /\ \A s \in DOMAIN threads : threads'[s].unread = IF s = t THEN 0 ELSE threads[s].unread
  BY <1>1, <1>2 DEF Thread
<1>4. \A s \in DOMAIN threads : threads'[s].unread <= threads[s].unread
  <2>1. \A s \in DOMAIN threads : threads[s].unread \in Nat BY <1>2 DEF Thread
  <2> QED BY <1>3, <2>1
<1>5. OneCounts' /\ Fired' /\ Unread' /\ Owed' /\ Greets' BY <1>1, <1>3, <1>4, QuietStep
<1>6. Tasks' /\ Answers' BY <1>1, <1>3 DEF WokenInv, Tasks, Answers
<1> QED BY <1>5, <1>6 DEF WokenInv

\* A step that leaves the conversations, the rows and the deliveries.
LEMMA StillStep ==
  ASSUME WokenInv, TypeOK', UNCHANGED <<threads, stored, task, fired, greeted, hurt>>
  PROVE  OneCounts' /\ Fired' /\ Unread' /\ Owed' /\ Greets'
<1>1. \A t \in DOMAIN threads : threads[t] \in Thread BY DEF WokenInv, TypeOK
<1>2. \A t \in DOMAIN threads : threads[t].unread \in Nat BY <1>1 DEF Thread
<1>3. \A t \in DOMAIN threads :
        threads'[t].opener = threads[t].opener /\ threads'[t].unread <= threads[t].unread
  BY <1>2
<1> QED BY <1>3, QuietStep

\* A reply is stored once, by the team or by its echo.
LEMMA ReplyAddsWoken ==
  ASSUME WokenInv, TypeOK', NEW m \in Replies, ReplyAdds(m)
  PROVE  WokenInv'
<1>0. m \in Messages /\ m \notin Inbound /\ \A n \in Replies : n \in Messages BY InboxAssumption
<1> DEFINE row == [thread |-> reply[m][2], by |-> "team"]
<1>1. reply[m][1] = "add" /\ UNCHANGED <<way, threads, acked, task, fired, greeted, raced, hurt, faults>>
  BY DEF ReplyAdds
<1>2. CASE stored[m] # None
  <2>1. stored' = stored /\ reply' = [reply EXCEPT ![m] = <<"failed", reply[m][2]>>]
    BY <1>2 DEF ReplyAdds, Becomes
  <2>2. OneCounts' /\ Fired' /\ Unread' /\ Owed' /\ Greets' BY <1>1, <2>1, StillStep
  <2>3. Tasks' BY <1>1, <2>1 DEF WokenInv, Tasks
  <2>4. Answers' BY <1>1, <2>1 DEF WokenInv, Answers, TypeOK
  <2> QED BY <2>2, <2>3, <2>4 DEF WokenInv
<1>3. CASE stored[m] = None
  <2>1. stored' = [stored EXCEPT ![m] = row] /\ reply' = [reply EXCEPT ![m] = <<"touch", reply[m][2]>>]
    BY <1>3 DEF ReplyAdds, Becomes
  <2>2. /\ stored'[m] = row /\ \A n \in Messages : n # m => stored'[n] = stored[n]
        /\ row.by = "team" /\ row # None
    <3>1. reply[m][2] \in DOMAIN threads /\ threads \in Seq(Thread)
      BY <1>1 DEF WokenInv, Answers, TypeOK
    <3>2. row \in [thread : Nat, by : {"webhook", "team"}] BY <3>1
    <3> QED BY <1>0, <2>1, <3>2, InboxAssumption DEF WokenInv, TypeOK
  <2> HIDE DEF row
  <2>3. fired[m] = 0 BY <1>0, <1>3 DEF WokenInv, Fired
  <2>4. Tasks'
    <3>1. \A i \in Slots : task[i].step = "touch" => i[1] \in Messages /\ i[1] # m
      <4>1. ASSUME NEW i \in Slots, task[i].step = "touch", i[1] = m PROVE FALSE
        <5>1. stored[m] = [thread |-> task[i].thread, by |-> "webhook"]
          BY <4>1 DEF WokenInv, Tasks
        <5>2. [thread |-> task[i].thread, by |-> "webhook"] \in [thread : Nat, by : {"webhook", "team"}]
          BY DEF WokenInv, TypeOK, Task
        <5> QED BY <1>3, <5>1, <5>2, InboxAssumption
      <4> QED BY <4>1, InboxAssumption
    <3> QED BY <1>1, <2>2, <3>1 DEF WokenInv, Tasks
  <2>5. Answers'
    <3>1. \A n \in Replies : n # m => reply'[n] = reply[n] BY <2>1 DEF WokenInv, TypeOK
    <3>2. reply'[m] = <<"touch", reply[m][2]>> BY <2>1 DEF WokenInv, TypeOK
    <3>3. stored'[m] = [thread |-> reply'[m][2], by |-> "team"] BY <2>2, <3>2 DEF row
    <3>4. reply[m][2] \in DOMAIN threads BY <1>1 DEF WokenInv, Answers
    <3> QED BY <1>0, <1>1, <2>2, <2>3, <3>1, <3>2, <3>3, <3>4 DEF WokenInv, Answers
  <2>6. Fired' BY <1>0, <1>1, <2>2, <2>3 DEF WokenInv, Fired
  <2>7. OneCounts' BY <1>1 DEF WokenInv, OneCounts
  <2>8. \A n \in Inbound : stored'[n] = stored[n] BY <1>0, <2>2, InboxAssumption
  <2>9. Owed' BY <1>1, <2>8 DEF WokenInv, Owed
  <2>10. Greets' BY <1>1 DEF WokenInv, Greets
  <2>11. ASSUME NEW t \in DOMAIN threads PROVE threads'[t].unread <= Cardinality(Counted(t)')
    <3>1. Counted(t)' = Counted(t) BY <1>1, <2>8 DEF Counted
    <3> QED BY <1>1, <3>1 DEF WokenInv, Unread
  <2> QED BY <1>1, <2>4, <2>5, <2>6, <2>7, <2>9, <2>10, <2>11 DEF WokenInv, Unread
<1> QED BY <1>2, <1>3

\* The team's own answer reads the conversation and wakes once.
LEMMA ReplyTouchesWoken ==
  ASSUME WokenInv, TypeOK', NEW m \in Replies, ReplyTouches(m)
  PROVE  WokenInv'
<1>0. m \in Messages /\ m \notin Inbound BY InboxAssumption
<1> DEFINE t == reply[m][2]
<1>1. /\ reply[m][1] = "touch" /\ threads' = Touched(t, m)
      /\ reply' = [reply EXCEPT ![m] = <<"done", t>>]
      /\ fired' = [fired EXCEPT ![m] = @ + 1]
      /\ UNCHANGED <<way, stored, acked, task, greeted, raced, hurt, faults>>
  BY DEF ReplyTouches, Becomes
<1>2. t \in DOMAIN threads /\ fired[m] = 0 /\ stored[m] = [thread |-> t, by |-> "team"]
  BY <1>1 DEF WokenInv, Answers
<1>3. stored[m].by = "team" /\ stored[m] # None
  <2>1. threads \in Seq(Thread) BY DEF WokenInv, TypeOK
  <2>2. [thread |-> t, by |-> "team"] \in [thread : Nat, by : {"webhook", "team"}] BY <1>2, <2>1
  <2> QED BY <1>2, <2>2, InboxAssumption
<1>4. fired'[m] = 1 /\ \A n \in Messages : n # m => fired'[n] = fired[n]
  BY <1>0, <1>1, <1>2 DEF WokenInv, TypeOK
<1>5. /\ DOMAIN threads' = DOMAIN threads
      /\ \A s \in DOMAIN threads :
           threads'[s].opener = threads[s].opener /\ threads'[s].unread <= threads[s].unread
  <2>1. \A s \in DOMAIN threads : threads[s].unread \in Nat
    BY <1>1, <1>2, TouchedUnread DEF WokenInv
  <2> QED BY <1>0, <1>1, <1>2, <2>1, TouchedUnread DEF WokenInv
<1>6. Tasks'
  <2>1. \A i \in Slots : task[i].step = "touch" => i[1] \in Messages /\ i[1] # m
    <3>1. ASSUME NEW i \in Slots, task[i].step = "touch" PROVE stored[i[1]].by = "webhook"
      <4>1. stored[i[1]] = [thread |-> task[i].thread, by |-> "webhook"]
        BY <3>1 DEF WokenInv, Tasks
      <4> QED BY <4>1
    <3> QED BY <1>3, <3>1, InboxAssumption
  <2> QED BY <1>1, <1>4, <2>1 DEF WokenInv, Tasks
<1>7. Answers'
  <2>1. \A n \in Replies : n \in Messages /\ (n # m => reply'[n] = reply[n])
    BY <1>1, InboxAssumption DEF WokenInv, TypeOK
  <2>2. reply'[m] = <<"done", t>> BY <1>1 DEF WokenInv, TypeOK
  <2> QED BY <1>1, <1>4, <1>5, <2>1, <2>2 DEF WokenInv, Answers
<1>8. Fired' BY <1>0, <1>1, <1>3, <1>4 DEF WokenInv, Fired
<1>9. OneCounts' BY <1>1 DEF WokenInv, OneCounts
<1>10. Owed' BY <1>0, <1>1, <1>4, InboxAssumption DEF WokenInv, Owed
<1>11. Greets' BY <1>1, <1>5 DEF WokenInv, Greets
<1>12. ASSUME NEW s \in DOMAIN threads PROVE threads'[s].unread <= Cardinality(Counted(s)')
  <2>1. Counted(s)' = Counted(s) BY <1>1 DEF Counted
  <2>2. threads[s].unread \in Nat /\ threads[s].unread <= Cardinality(Counted(s))
    BY <1>1, <1>2, TouchedUnread DEF WokenInv, Unread
  <2>3. threads[s] \in Thread /\ threads'[s] \in Thread BY <1>5 DEF WokenInv, TypeOK
  <2>4. threads'[s].unread \in Nat BY <2>3 DEF Thread
  <2> QED BY <1>5, <2>1, <2>2, <2>4, CountedFew
<1> QED BY <1>5, <1>6, <1>7, <1>8, <1>9, <1>10, <1>11, <1>12 DEF WokenInv, Unread

\* A search ends without a conversation, or holds one that matches.
LEMMA SearchOutcome ==
  ASSUME TypeOK, NEW i \in Slots, Searches(i)
  PROVE  /\ task[i].step = "search" /\ task'[i].created = task[i].created
         /\ \A k \in Slots : k # i => task'[k] = task[k]
         /\ \/ task'[i].step = "open"
            \/ /\ task'[i].step \in {"identify", "link", "add"}
               /\ task'[i].thread \in Matches(way[i[1]])
               /\ task'[i].phone = IF way[i[1]].phone = None
                                     THEN threads[task'[i].thread].phone ELSE way[i[1]].phone
<1>1. task \in [Slots -> Task] /\ task[i] \in Task BY DEF TypeOK
<1>2. CASE task' = [task EXCEPT ![i].step = "open"]
  BY <1>1, <1>2 DEF Task, Searches
<1>3. ASSUME NEW t \in Matches(way[i[1]]), NEW p, NEW f \in {"identify", "link", "add"},
             p = IF way[i[1]].phone = None THEN threads[t].phone ELSE way[i[1]].phone,
             task' = [task EXCEPT ![i] = [task[i] EXCEPT !.thread = t, !.phone = p, !.step = f]]
      PROVE  /\ task'[i].created = task[i].created
             /\ \A k \in Slots : k # i => task'[k] = task[k]
             /\ task'[i].step = f /\ task'[i].thread = t /\ task'[i].phone = p
  BY <1>1, <1>3 DEF Task
<1>4. task[i].step = "search" BY DEF Searches
<1>5. CASE task' # [task EXCEPT ![i].step = "open"]
  <2>1. PICK t \in Matches(way[i[1]]), f \in {"identify", "link", "add"} :
          task' = [task EXCEPT ![i] =
            [task[i] EXCEPT !.thread = t,
               !.phone = IF way[i[1]].phone = None THEN threads[t].phone ELSE way[i[1]].phone,
               !.step = f]]
    BY <1>5 DEF Searches
  <2> DEFINE p == IF way[i[1]].phone = None THEN threads[t].phone ELSE way[i[1]].phone
  <2>2. task' = [task EXCEPT ![i] = [task[i] EXCEPT !.thread = t, !.phone = p, !.step = f]]
    BY <2>1
  <2>3. /\ task'[i].created = task[i].created
        /\ \A k \in Slots : k # i => task'[k] = task[k]
        /\ task'[i].step = f /\ task'[i].thread = t /\ task'[i].phone = p
    BY <1>3, <2>2
  <2> QED BY <1>4, <2>3
<1> QED BY <1>2, <1>4, <1>5

\* Automations wake once, whatever is delivered, sent, read or breaks.
LEMMA WokenStep ==
  ASSUME WokenInv, TypeOK', Addressed, [Next]_vars
  PROVE  WokenInv'
<1>1. ASSUME NEW m \in Messages, Writes(m) PROVE WokenInv'
  <2>1. /\ way[m] = None /\ m \notin Replies
        /\ UNCHANGED <<threads, stored, task, reply, fired, greeted, hurt>>
        /\ \E w \in Ways[m] : way' = [way EXCEPT ![m] = w]
    BY <1>1 DEF Writes
  <2>2. \A n \in Messages : n # m => way'[n] = way[n] BY <2>1 DEF WokenInv, TypeOK
  <2>3. way'[m] # None BY <2>1, WaysName DEF WokenInv, TypeOK
  <2>4. Tasks'
    <3>1. \A i \in Slots : i[1] \in Messages BY InboxAssumption
    <3> QED BY <2>1, <2>2, <2>3, <3>1 DEF WokenInv, Tasks
  <2>5. Answers'
    <3>1. \A n \in Replies : n \in Messages BY InboxAssumption
    <3> QED BY <2>1, <2>2, <3>1 DEF WokenInv, Answers
  <2> QED BY <2>1, <2>4, <2>5, StillStep DEF WokenInv
<1>2. ASSUME NEW i \in Slots, Looks(i) PROVE WokenInv'
  <2>1. /\ UNCHANGED <<way, threads, stored, reply, fired, greeted, raced, hurt>>
        /\ task[i].step = "idle" /\ way[i[1]] # None
        /\ task' = task \/ task' = [task EXCEPT ![i].step = "search"]
    BY <1>2 DEF Looks
  <2>2. \A k \in Slots : task'[k] = task[k]
          \/ (k = i /\ task'[k].step = "search" /\ task'[k].created = task[k].created)
    BY <2>1 DEF WokenInv, TypeOK, Task
  <2>3. ~ task[i].created BY <2>1 DEF WokenInv, Tasks
  <2>4. Tasks' BY <2>1, <2>2, <2>3 DEF WokenInv, Tasks
  <2>5. Answers' BY <2>1 DEF WokenInv, Answers
  <2>6. \A t \in DOMAIN threads : threads[t].unread \in Nat
    <3>1. \A t \in DOMAIN threads : threads[t] \in Thread BY DEF WokenInv, TypeOK
    <3> QED BY <3>1 DEF Thread
  <2>7. \A t \in DOMAIN threads : threads'[t].opener = threads[t].opener /\ threads'[t].unread <= threads[t].unread
    BY <2>1, <2>6
  <2> QED BY <2>1, <2>2, <2>3, <2>4, <2>5, <2>7, QuietStep DEF WokenInv
<1>3. ASSUME NEW i \in Slots, Searches(i) PROVE WokenInv'
  <2>1. /\ UNCHANGED <<way, threads, stored, acked, reply, fired, greeted, raced, hurt, faults>>
        /\ task[i].step = "search"
    BY <1>3 DEF Searches
  <2>2. \A k \in Slots : task'[k] = task[k]
          \/ (/\ k = i /\ task'[k].step \in {"open", "identify", "link", "add"}
              /\ task'[k].created = task[k].created)
    BY <1>3, SearchOutcome DEF WokenInv
  <2>3. ~ task[i].created BY <2>1 DEF WokenInv, Tasks
  <2>4. Tasks' BY <2>1, <2>2, <2>3 DEF WokenInv, Tasks
  <2>5. Answers' BY <2>1 DEF WokenInv, Answers
  <2>6. \A t \in DOMAIN threads : threads[t].unread \in Nat
    <3>1. \A t \in DOMAIN threads : threads[t] \in Thread BY DEF WokenInv, TypeOK
    <3> QED BY <3>1 DEF Thread
  <2>7. \A t \in DOMAIN threads : threads'[t].opener = threads[t].opener /\ threads'[t].unread <= threads[t].unread
    BY <2>1, <2>6
  <2> QED BY <2>1, <2>2, <2>3, <2>4, <2>5, <2>7, QuietStep DEF WokenInv
<1>4. ASSUME NEW i \in Slots, Breaks(i) PROVE WokenInv' BY <1>4, ThrowsWoken DEF Breaks
<1>5. ASSUME NEW i \in Slots, Receives(i) PROVE WokenInv'
  BY <1>2, <1>3, <1>5, OpensWoken, IdentifiesWoken, LinksWoken, AddsWoken, TouchesWoken
     DEF Receives
<1>6. ASSUME NEW m \in Replies, NEW t \in DOMAIN threads, SendBegins(m, t) PROVE WokenInv'
  <2>1. /\ reply[m][1] = "none" /\ reply' = [reply EXCEPT ![m] = <<"send", t>>]
        /\ UNCHANGED <<way, threads, stored, task, fired, greeted, hurt>>
    BY <1>6 DEF SendBegins
  <2>2. Tasks' BY <2>1 DEF WokenInv, Tasks
  <2>3. Answers' BY <2>1 DEF WokenInv, Answers, TypeOK
  <2> QED BY <2>1, <2>2, <2>3, StillStep DEF WokenInv
<1>7. ASSUME NEW m \in Replies, ProviderTakes(m) PROVE WokenInv'
  <2>1. /\ reply[m][1] = "send" /\ reply' = [reply EXCEPT ![m] = <<"add", reply[m][2]>>]
        /\ UNCHANGED <<threads, stored, task, fired, greeted, hurt>>
        /\ \E w \in Ways[m] : way' = [way EXCEPT ![m] = w]
    BY <1>7 DEF ProviderTakes, Becomes
  <2>2. m \in Messages BY InboxAssumption
  <2>3. way'[m] # None /\ \A n \in Messages : n # m => way'[n] = way[n]
    BY <2>1, <2>2, WaysName DEF WokenInv, TypeOK
  <2>4. Tasks'
    <3>1. \A i \in Slots : i[1] \in Messages BY InboxAssumption
    <3> QED BY <2>1, <2>3, <3>1 DEF WokenInv, Tasks
  <2>5. Answers'
    <3>1. \A n \in Replies : n \in Messages BY InboxAssumption
    <3>2. reply'[m] = <<"add", reply[m][2]>> /\ \A n \in Replies : n # m => reply'[n] = reply[n]
      BY <2>1 DEF WokenInv, TypeOK
    <3> QED BY <2>1, <2>3, <3>1, <3>2 DEF WokenInv, Answers
  <2> QED BY <2>1, <2>4, <2>5, StillStep DEF WokenInv
<1>8. ASSUME NEW m \in Replies, ReplyFails(m) PROVE WokenInv'
  <2>1. /\ reply' = [reply EXCEPT ![m] = <<"failed", reply[m][2]>>]
        /\ UNCHANGED <<way, threads, stored, acked, task, fired, greeted, raced, hurt>>
    BY <1>8 DEF ReplyFails, Becomes
  <2>2. Tasks' BY <2>1 DEF WokenInv, Tasks
  <2>3. Answers' BY <2>1 DEF WokenInv, Answers, TypeOK
  <2> QED BY <2>1, <2>2, <2>3, StillStep DEF WokenInv
<1>9. CASE UNCHANGED vars
  <2>1. UNCHANGED <<way, threads, stored, task, reply, fired, greeted, hurt>>
    BY <1>9 DEF vars
  <2>2. Tasks' /\ Answers' BY <2>1 DEF WokenInv, Tasks, Answers
  <2> QED BY <2>1, <2>2, StillStep DEF WokenInv
<1> QED BY <1>1, <1>4, <1>5, <1>6, <1>7, <1>8, <1>9,
           ReadsWoken, ReplyAddsWoken, ReplyTouchesWoken DEF Next

\* Messages keep the way they were addressed.
LEMMA WayKept ==
  ASSUME WokenInv, Addressed, [Next]_vars
  PROVE  /\ \A m \in Messages : way[m] # None => way'[m] = way[m]
         /\ Addressed'
<1>1. CASE way' = way BY <1>1 DEF Addressed
<1>2. ASSUME NEW m \in Messages, way[m] = None, NEW w \in Ways[m], way' = [way EXCEPT ![m] = w]
      PROVE  /\ \A n \in Messages : way[n] # None => way'[n] = way[n]
             /\ Addressed'
  BY <1>2 DEF WokenInv, TypeOK, Addressed
<1>3. ASSUME NEW m \in Messages, Writes(m)
      PROVE  way[m] = None /\ \E w \in Ways[m] : way' = [way EXCEPT ![m] = w]
  BY <1>3 DEF Writes
<1>4. ASSUME NEW m \in Replies, ProviderTakes(m)
      PROVE  m \in Messages /\ way[m] = None /\ \E w \in Ways[m] : way' = [way EXCEPT ![m] = w]
  BY <1>4, InboxAssumption DEF WokenInv, Answers, ProviderTakes
<1>5. \/ way' = way
      \/ \E m \in Messages : Writes(m)
      \/ \E m \in Replies : ProviderTakes(m)
  BY DEF Next, vars, Receives, Looks, Searches, Opens, Identifies, Links, Adds, Touches, Breaks,
         Throws, SendBegins, ReplyAdds, ReplyTouches, ReplyFails, Reads
<1> QED BY <1>1, <1>2, <1>3, <1>4, <1>5

\* What the invariant says of those who wake.
LEMMA WokenMeans ==
  ASSUME WokenInv
  PROVE  WokenOnce
<1>1. ASSUME NEW t \in DOMAIN threads
      PROVE  threads[t].unread <= Cardinality({m \in Inbound : stored[m] # None /\ stored[m].thread = t})
  <2> DEFINE held == {m \in Inbound : stored[m] # None /\ stored[m].thread = t}
  <2>1. Counted(t) \subseteq held /\ held \subseteq Messages BY InboxAssumption DEF Counted
  <2>2. IsFiniteSet(held) BY <2>1, InboxAssumption, FS_Subset
  <2>3. Cardinality(Counted(t)) <= Cardinality(held) /\ Cardinality(held) \in Nat
    BY <2>1, <2>2, FS_Subset, FS_CardinalityType
  <2>4. threads[t] \in Thread BY DEF WokenInv, TypeOK
  <2>5. threads[t].unread \in Nat /\ threads[t].unread <= Cardinality(Counted(t))
    BY <2>4 DEF Thread, WokenInv, Unread
  <2> QED BY <2>3, <2>5, CountedFew
<1>2. \A m \in Inbound \ hurt : stored[m] # None /\ fired[m] = 0 =>
        \E i \in Slots : i[1] = m /\ task[i].step = "touch"
  BY DEF WokenInv, Owed
<1>3. \A t \in DOMAIN threads \ greeted :
        threads[t].opener \in Inbound \ hurt =>
          \E i \in Slots : i[1] = threads[t].opener /\ task[i].created
  BY DEF WokenInv, Greets
<1>4. \A m \in Messages : fired[m] <= IF m \in Inbound THEN 1
        ELSE IF stored[m] # None /\ stored[m].by = "team" THEN 1 ELSE 0
  BY DEF WokenInv, Fired
<1> QED BY <1>1, <1>2, <1>3, <1>4 DEF WokenOnce

LEMMA WokenInit ==
  ASSUME Init
  PROVE  WokenInv /\ Addressed
<1>1. Idle \in Task BY DEF Idle, Task, Steps
<1>2. threads \in Seq(Thread) /\ DOMAIN threads = {} BY DEF Init
<1>3. TypeOK
  <2>1. reply \in [Replies -> {"none", "send", "add", "touch", "done", "failed"}
                              \X ({0} \cup DOMAIN threads)]
    BY <1>2 DEF Init
  <2>2. stored \in [Messages -> [thread : DOMAIN threads, by : {"webhook", "team"}] \cup {None}]
    BY DEF Init
  <2>3. task \in [Slots -> Task] /\ \A i \in Slots : task[i].step = "idle"
    BY <1>1 DEF Init, Idle
  <2>4. faults \in 0 .. MaxFaults BY InboxAssumption DEF Init
  <2> QED BY <1>2, <2>1, <2>2, <2>3, <2>4 DEF TypeOK, Init
<1>4. Tasks /\ OneCounts BY DEF Init, Idle, Tasks, OneCounts
<1>5. Answers
  <2>1. \A m \in Replies : m \in Messages BY InboxAssumption
  <2> QED BY <2>1 DEF Init, Answers
<1>6. Fired BY DEF Init, Fired
<1>7. Unread /\ Greets BY <1>2 DEF Unread, Greets
<1>8. Owed BY InboxAssumption DEF Init, Owed
<1>9. Addressed BY DEF Init, Addressed
<1> QED BY <1>3, <1>4, <1>5, <1>6, <1>7, <1>8, <1>9 DEF WokenInv

\* Conversations, rows and requests hold values of their kind, and no counter of
\* unread messages ever passes the messages there are.
THEOREM InboxTypes == Spec => []TypeOK
<1>1. Init => WokenInv /\ Addressed BY WokenInit
<1>2. (WokenInv /\ Addressed) /\ [Next]_vars => (WokenInv /\ Addressed)'
  BY TypeStep, WokenStep, WayKept
<1>3. WokenInv => TypeOK BY DEF WokenInv
<1> QED BY <1>1, <1>2, <1>3, PTL DEF Spec

\* AT-03: however often a message is delivered, two at a time, and whichever of
\* the reply and its echo wins, automations wake once, for what is stored.
THEOREM AutomationsWakeOnce == Spec => []WokenOnce
<1>1. Init => WokenInv /\ Addressed BY WokenInit
<1>2. (WokenInv /\ Addressed) /\ [Next]_vars => (WokenInv /\ Addressed)'
  BY TypeStep, WokenStep, WayKept
<1>3. WokenInv => WokenOnce BY WokenMeans
<1> QED BY <1>1, <1>2, <1>3, PTL DEF Spec

-----------------------------------------------------------------------------
(* One conversation.                                                       *)

\* Two numbers of a contact are the two spellings of one.
LEMMA SameNumber ==
  ASSUME NEW c, NEW p, NEW q, p # None, q # None, NumberOf(p, c), NumberOf(q, c)
  PROVE  p \in {q, Twin[q]}
BY ContactAssumption DEF NumberOf

\* A conversation that answers to a name a message carries is its contact's.
LEMMA SameContact ==
  ASSUME Named, NEW m \in Messages, NEW w \in Ways[m], NEW t \in Matches(w)
  PROVE  t \in DOMAIN threads /\ Contact[threads[t].opener] = Contact[m]
<1> DEFINE c == Contact[threads[t].opener]
<1>1. t \in DOMAIN threads BY DEF Matches
<1>2. PICK u \in formas(w) : u = threads[t].user \/ u = threads[t].phone BY DEF Matches
<1>3. u # None /\ u \in Names(w) BY <1>2, WaysName, InboxAssumption
<1>4. PICK n \in Messages : \E v \in Ways[n] : Contact[n] = c /\ u \in Names(v)
  <2>1. CASE u = threads[t].user
    <3>1. PICK n \in Messages : \E v \in Ways[n] : Contact[n] = c /\ u \in formas(v)
      BY <1>1, <2>1 DEF Named, NameOf
    <3> QED BY <3>1, WaysName
  <2>2. CASE u = threads[t].phone
    <3>1. PICK n \in Messages : \E v \in Ways[n] : Contact[n] = c /\ u = v.phone
      BY <1>1, <1>3, <2>2 DEF Named, NumberOf
    <3> QED BY <3>1 DEF Names
  <2> QED BY <1>2, <2>1, <2>2
<1>5. PICK v \in Ways[n] : u \in Names(v) BY <1>4
<1>6. ~ (Names(v) \cap Names(w) \subseteq {None}) BY <1>3, <1>5
<1> QED BY <1>1, <1>4, <1>6, ContactAssumption

\* A step that opens no conversation.
LEMMA SameOpeners ==
  ASSUME OneThread, \A m \in Messages : way[m] # None => way'[m] = way[m],
         raced \subseteq raced', DOMAIN threads' = DOMAIN threads,
         \A t \in DOMAIN threads : threads'[t].opener = threads[t].opener
  PROVE  OneThread'
<1>1. ASSUME NEW s \in DOMAIN threads, NEW t \in DOMAIN threads, s # t,
             Contact[threads'[s].opener] = Contact[threads'[t].opener],
             Contact[threads'[s].opener] \notin raced'
      PROVE  \E m \in Messages : /\ Contact[m] = Contact[threads'[s].opener]
                                 /\ way'[m] # None /\ way'[m].phone = None
  <2>1. PICK m \in Messages :
          Contact[m] = Contact[threads[s].opener] /\ way[m] # None /\ way[m].phone = None
    BY <1>1 DEF OneThread
  <2> QED BY <2>1
<1> QED BY <1>1 DEF OneThread

\* A step that renames no conversation.
LEMMA SameNames ==
  ASSUME ThreadInv, \A m \in Messages : way[m] # None => way'[m] = way[m],
         raced \subseteq raced', DOMAIN threads' = DOMAIN threads,
         \A t \in DOMAIN threads :
           /\ threads'[t].user = threads[t].user /\ threads'[t].phone = threads[t].phone
           /\ threads'[t].opener = threads[t].opener
  PROVE  Named' /\ Numbered' /\ OneThread'
<1>1. \A c : Shows(c)' => Shows(c) BY DEF Shows
<1>2. Named' BY DEF ThreadInv, Named
<1>3. Numbered'
  <2>1. ASSUME NEW t \in DOMAIN threads, Shows(Contact[threads[t].opener])'
        PROVE  threads'[t].phone # None
    <3>1. Shows(Contact[threads[t].opener]) BY <2>1 DEF Shows
    <3> QED BY <3>1 DEF ThreadInv, Numbered
  <2> QED BY <2>1 DEF Numbered
<1>4. OneThread' BY SameOpeners DEF ThreadInv
<1> QED BY <1>2, <1>3, <1>4

\* A delivery goes on with the conversation it holds.
LEMMA SameHolds ==
  ASSUME ThreadInv, \A m \in Messages : way[m] # None => way'[m] = way[m],
         \A t \in DOMAIN threads : t \in DOMAIN threads' /\ threads'[t].opener = threads[t].opener,
         \A k \in Slots : task'[k].step \in {"identify", "link", "add", "touch"} =>
           /\ task[k].step \in {"identify", "link", "add", "touch"}
           /\ task'[k].thread = task[k].thread
           /\ task'[k].step = "identify" =>
                task[k].step = "identify" /\ task'[k].phone = task[k].phone
  PROVE  Holds'
<1>1. \A k \in Slots : k[1] \in Messages BY InboxAssumption
<1>2. ASSUME NEW k \in Slots, task'[k].step \in {"identify", "link", "add", "touch"}
      PROVE  Contact[threads'[task'[k].thread].opener] = Contact[k[1]]
  <2>1. task[k].thread \in DOMAIN threads BY <1>2 DEF ThreadInv, WokenInv, TypeOK
  <2> QED BY <1>2, <2>1 DEF ThreadInv, Holds
<1>3. ASSUME NEW k \in Slots, task'[k].step = "identify"
      PROVE  /\ task'[k].phone # None => NumberOf(task'[k].phone, Contact[k[1]])
             /\ way'[k[1]].phone # None => task'[k].phone # None
  <2>1. task[k].step = "identify" /\ task'[k].phone = task[k].phone BY <1>3
  <2>2. way'[k[1]] = way[k[1]] BY <1>1, <2>1 DEF ThreadInv, WokenInv, Tasks
  <2> QED BY <2>1, <2>2 DEF ThreadInv, Holds
<1> QED BY <1>2, <1>3 DEF Holds, NumberOf

\* A delivery holds the conversation it found, its contact's.
LEMMA SearchesThread ==
  ASSUME ThreadInv, WokenInv', \A m \in Messages : way[m] # None => way'[m] = way[m],
         NEW i \in Slots, Searches(i)
  PROVE  Holds' /\ Named' /\ Numbered' /\ OneThread'
<1> DEFINE w == way[i[1]]
           c == Contact[i[1]]
           t == task'[i].thread
<1>1. UNCHANGED <<way, threads, raced>> BY DEF Searches
<1>2. Named' /\ Numbered' /\ OneThread' BY <1>1, SameNames
<1>3. i[1] \in Messages /\ w \in Ways[i[1]]
  BY InboxAssumption DEF Searches, ThreadInv, WokenInv, Addressed, Tasks
<1>4. /\ \A k \in Slots : k # i => task'[k] = task[k]
      /\ \/ task'[i].step = "open"
         \/ /\ task'[i].step \in {"identify", "link", "add"}
            /\ t \in Matches(w)
            /\ task'[i].phone = IF w.phone = None THEN threads[t].phone ELSE w.phone
  BY SearchOutcome DEF ThreadInv, WokenInv
<1>5. CASE task'[i].step = "open"
  BY <1>1, <1>2, <1>4, <1>5, SameHolds DEF ThreadInv, WokenInv, TypeOK
<1>6. CASE task'[i].step # "open"
  <2>1. t \in DOMAIN threads /\ Contact[threads[t].opener] = c
    BY <1>3, <1>4, <1>6, SameContact DEF ThreadInv
  <2>2. task'[i].phone # None => NumberOf(task'[i].phone, c)
    <3>1. CASE w.phone = None
      <4>1. task'[i].phone = threads[t].phone BY <1>4, <1>6, <3>1
      <4> QED BY <2>1, <4>1 DEF ThreadInv, Named
    <3>2. CASE w.phone # None BY <1>3, <1>4, <1>6, <3>2 DEF NumberOf
    <3> QED BY <3>1, <3>2
  <2>3. w.phone # None => task'[i].phone # None BY <1>4, <1>6
  <2>4. ASSUME NEW k \in Slots, task'[k].step \in {"identify", "link", "add", "touch"}
        PROVE  Contact[threads'[task'[k].thread].opener] = Contact[k[1]]
    BY <1>1, <1>4, <2>1, <2>4 DEF ThreadInv, Holds
  <2>5. ASSUME NEW k \in Slots, task'[k].step = "identify"
        PROVE  /\ task'[k].phone # None => NumberOf(task'[k].phone, Contact[k[1]])
               /\ way'[k[1]].phone # None => task'[k].phone # None
    <3>1. CASE k = i BY <1>1, <2>2, <2>3, <3>1
    <3>2. CASE k # i BY <1>1, <1>4, <2>5, <3>2 DEF ThreadInv, Holds
    <3> QED BY <3>1, <3>2
  <2> QED BY <1>2, <2>4, <2>5 DEF Holds, NumberOf
<1> QED BY <1>5, <1>6

\* A conversation is opened with the names of its contact; when nobody raced it
\* none of the contact was there, or a message had hidden its number.
LEMMA OpensThread ==
  ASSUME ThreadInv, WokenInv', \A m \in Messages : way[m] # None => way'[m] = way[m],
         NEW i \in Slots, Opens(i)
  PROVE  Holds' /\ Named' /\ Numbered' /\ OneThread'
<1> DEFINE w == way[i[1]]
           c == Contact[i[1]]
           n == Len(threads) + 1
           new == [user |-> channelUserId(w), phone |-> w.phone,
                   customer |-> clientePeloTelefone(w), unread |-> 0, opener |-> i[1]]
<1>1. i[1] \in Messages /\ w \in Ways[i[1]] /\ w # None
  BY InboxAssumption DEF Opens, ThreadInv, WokenInv, Addressed, Tasks
<1>2. raced \subseteq raced' /\ (c \notin raced' => Matches(w) = {}) BY DEF Opens
<1>3. CASE Taken(new.user, 0)
  <2>1. UNCHANGED <<way, threads>> /\ task' = [task EXCEPT ![i] = Idle]
    BY <1>3 DEF Opens, Throws
  <2>2. \A k \in Slots : task'[k].step # "idle" => task'[k] = task[k]
    BY <2>1 DEF ThreadInv, WokenInv, TypeOK, Idle
  <2> QED BY <1>2, <2>1, <2>2, SameNames, SameHolds
<1>4. CASE ~ Taken(new.user, 0)
  <2>1. /\ threads' = Append(threads, new) /\ way' = way
        /\ task' = [task EXCEPT ![i] =
             [@ EXCEPT !.thread = Len(threads) + 1, !.created = TRUE,
                       !.step = IF new.customer = None THEN "link" ELSE "add"]]
    BY <1>4 DEF Opens
  <2>2. threads \in Seq(Thread) BY DEF ThreadInv, WokenInv, TypeOK
  <2>3. new.user = channelUserId(w) /\ new.phone = w.phone /\ new.opener = i[1] OBVIOUS
  <2> HIDE DEF new
  <2>4. /\ DOMAIN threads' = DOMAIN threads \cup {n} /\ n \notin DOMAIN threads
        /\ \A t \in DOMAIN threads : threads'[t] = threads[t]
        /\ threads'[n] = new
    BY <2>1, <2>2
  <2>5. /\ task'[i].thread = n /\ task'[i].step \in {"link", "add"}
        /\ \A k \in Slots : k # i => task'[k] = task[k]
    <3>1. task \in [Slots -> Task] /\ task[i] \in Task BY DEF ThreadInv, WokenInv, TypeOK
    <3> QED BY <2>1, <3>1 DEF Task
  <2> HIDE DEF n
  <2>6. Holds'
    <3>1. ASSUME NEW k \in Slots, task'[k].step \in {"identify", "link", "add", "touch"}
          PROVE  Contact[threads'[task'[k].thread].opener] = Contact[k[1]]
      <4>1. CASE k = i BY <2>3, <2>4, <2>5, <4>1
      <4>2. CASE k # i
        <5>1. task'[k] = task[k] /\ task[k].thread \in DOMAIN threads
          BY <2>5, <3>1, <4>2 DEF ThreadInv, WokenInv, TypeOK
        <5> QED BY <2>4, <3>1, <5>1 DEF ThreadInv, Holds
      <4> QED BY <4>1, <4>2
    <3>2. ASSUME NEW k \in Slots, task'[k].step = "identify"
          PROVE  /\ task'[k].phone # None => NumberOf(task'[k].phone, Contact[k[1]])
                 /\ way'[k[1]].phone # None => task'[k].phone # None
      <4>1. k # i BY <2>5, <3>2
      <4> QED BY <2>1, <2>5, <3>2, <4>1 DEF ThreadInv, Holds
    <3> QED BY <3>1, <3>2 DEF Holds, NumberOf
  <2>7. Named'
    <3>1. NameOf(new.user, c) /\ (new.phone # None => NumberOf(new.phone, c))
      BY <1>1, <2>3 DEF NameOf, NumberOf, formas
    <3>2. ASSUME NEW t \in DOMAIN threads'
          PROVE  /\ NameOf(threads'[t].user, Contact[threads'[t].opener])
                 /\ threads'[t].phone # None =>
                      NumberOf(threads'[t].phone, Contact[threads'[t].opener])
      BY <2>3, <2>4, <3>1 DEF ThreadInv, Named
    <3> QED BY <3>2 DEF Named, NameOf, NumberOf
  <2>8. \A x : Shows(x)' = Shows(x) BY <2>1 DEF Shows
  <2>9. Shows(c) => new.phone # None BY <1>1, <2>3 DEF Shows
  <2>10. Numbered'
    <3>1. ASSUME NEW t \in DOMAIN threads', Shows(Contact[threads'[t].opener])
          PROVE  threads'[t].phone # None
      BY <2>3, <2>4, <2>9, <3>1 DEF ThreadInv, Numbered
    <3> QED BY <2>1, <3>1 DEF Numbered, Shows
  <2>11. ASSUME NEW s \in DOMAIN threads, Contact[threads[s].opener] = c, c \notin raced'
         PROVE  ~ Shows(c)
    <3>1. SUFFICES ASSUME Shows(c) PROVE FALSE OBVIOUS
    <3>2. threads[s].phone # None BY <2>11, <3>1 DEF ThreadInv, Numbered
    <3>3. NumberOf(threads[s].phone, c) BY <2>11, <3>2 DEF ThreadInv, Named
    <3>4. w.phone # None /\ NumberOf(w.phone, c) BY <1>1, <2>3, <2>9, <3>1 DEF NumberOf
    <3>5. threads[s].phone \in {w.phone, Twin[w.phone]} BY <3>2, <3>3, <3>4, SameNumber
    <3>6. threads[s].phone \in formas(w) BY <1>1, <3>4, <3>5, WaysName
    <3> QED BY <1>2, <2>11, <3>6 DEF Matches
  <2>12. OneThread'
    <3>1. ASSUME NEW s \in DOMAIN threads', NEW t \in DOMAIN threads', s # t,
                 Contact[threads'[s].opener] = Contact[threads'[t].opener],
                 Contact[threads'[s].opener] \notin raced'
          PROVE  ~ Shows(Contact[threads'[s].opener])
      <4>1. CASE s = n BY <2>3, <2>4, <2>11, <3>1, <4>1
      <4>2. CASE t = n BY <2>3, <2>4, <2>11, <3>1, <4>2
      <4>3. CASE s # n /\ t # n
        BY <1>2, <2>4, <3>1, <4>3 DEF ThreadInv, OneThread, Shows
      <4> QED BY <4>1, <4>2, <4>3
    <3> QED BY <2>1, <3>1 DEF OneThread, Shows
  <2> QED BY <2>6, <2>7, <2>10, <2>12
<1> QED BY <1>3, <1>4

\* A conversation given another identity is its contact's, and has its number
\* from then on if the message showed it.
LEMMA IdentifiesThread ==
  ASSUME ThreadInv, WokenInv', \A m \in Messages : way[m] # None => way'[m] = way[m],
         NEW i \in Slots, Identifies(i)
  PROVE  Holds' /\ Named' /\ Numbered' /\ OneThread'
<1> DEFINE w == way[i[1]]
           c == Contact[i[1]]
           t == task[i].thread
           user == channelUserId(w)
<1>1. /\ i[1] \in Messages /\ w \in Ways[i[1]] /\ w # None
      /\ task[i].step = "identify" /\ raced' = raced
  BY InboxAssumption DEF Identifies, ThreadInv, WokenInv, Addressed, Tasks
<1>2. CASE Taken(user, t)
  <2>1. UNCHANGED <<way, threads>> /\ task' = [task EXCEPT ![i] = Idle]
    BY <1>2 DEF Identifies, Throws
  <2>2. \A k \in Slots : task'[k].step # "idle" => task'[k] = task[k]
    BY <2>1 DEF ThreadInv, WokenInv, TypeOK, Idle
  <2> QED BY <1>1, <2>1, <2>2, SameNames, SameHolds
<1>3. CASE ~ Taken(user, t)
  <2>1. /\ threads' = [threads EXCEPT ![t].user = user, ![t].phone = task[i].phone]
        /\ task' = [task EXCEPT ![i].step =
                      IF threads[t].customer = None THEN "link" ELSE "add"]
        /\ way' = way
    BY <1>3 DEF Identifies
  <2>2. user \in formas(w) BY DEF formas
  <2> HIDE DEF user
  <2>3. threads \in Seq(Thread) /\ t \in DOMAIN threads
    BY <1>1 DEF ThreadInv, WokenInv, TypeOK
  <2>4. /\ DOMAIN threads' = DOMAIN threads
        /\ \A s \in DOMAIN threads \ {t} : threads'[s] = threads[s]
        /\ threads'[t].user = user /\ threads'[t].phone = task[i].phone
        /\ threads'[t].opener = threads[t].opener
    <3>1. threads[t] \in Thread BY <2>3
    <3> QED BY <2>1, <2>3, <3>1 DEF Thread
  <2>5. /\ Contact[threads[t].opener] = c
        /\ task[i].phone # None => NumberOf(task[i].phone, c)
        /\ w.phone # None => task[i].phone # None
    BY <1>1 DEF ThreadInv, Holds
  <2>6. /\ task'[i].thread = t /\ task'[i].step \in {"link", "add"}
        /\ \A k \in Slots : k # i => task'[k] = task[k]
    <3>1. task \in [Slots -> Task] /\ task[i] \in Task BY DEF ThreadInv, WokenInv, TypeOK
    <3> QED BY <2>1, <3>1 DEF Task
  <2>7. \A s \in DOMAIN threads : threads'[s].opener = threads[s].opener BY <2>4
  <2>8. Holds' BY <1>1, <2>4, <2>6, <2>7, SameHolds
  <2>9. NameOf(user, c) BY <1>1, <2>2 DEF NameOf
  <2>10. Named'
    <3>1. ASSUME NEW s \in DOMAIN threads
          PROVE  /\ NameOf(threads'[s].user, Contact[threads'[s].opener])
                 /\ threads'[s].phone # None =>
                      NumberOf(threads'[s].phone, Contact[threads'[s].opener])
      <4>1. CASE s = t BY <2>4, <2>5, <2>9, <4>1
      <4>2. CASE s # t BY <2>4, <4>2 DEF ThreadInv, Named
      <4> QED BY <4>1, <4>2
    <3> QED BY <2>4, <3>1 DEF Named, NameOf, NumberOf
  <2>11. Numbered'
    <3>1. ASSUME NEW s \in DOMAIN threads, Shows(Contact[threads[s].opener])
          PROVE  threads'[s].phone # None
      <4>1. CASE s = t BY <1>1, <2>4, <2>5, <3>1, <4>1 DEF Shows
      <4>2. CASE s # t BY <2>4, <3>1, <4>2 DEF ThreadInv, Numbered
      <4> QED BY <4>1, <4>2
    <3> QED BY <2>1, <2>4, <2>7, <3>1 DEF Numbered, Shows
  <2>12. OneThread' BY <1>1, <2>1, <2>4, <2>7, SameOpeners DEF ThreadInv
  <2> QED BY <2>8, <2>10, <2>11, <2>12
<1> QED BY <1>2, <1>3

\* Counting and reading rename nothing.
LEMMA TouchedNames ==
  ASSUME TypeOK, NEW t \in DOMAIN threads, NEW u, threads' = [threads EXCEPT ![t].unread = u]
  PROVE  /\ DOMAIN threads' = DOMAIN threads
         /\ \A s \in DOMAIN threads :
              /\ threads'[s].user = threads[s].user /\ threads'[s].phone = threads[s].phone
              /\ threads'[s].opener = threads[s].opener
<1>1. threads \in Seq(Thread) BY DEF TypeOK
<1>2. \A s \in DOMAIN threads : threads[s] \in Thread BY <1>1
<1> QED BY <1>1, <1>2 DEF Thread

LEMMA ThreadStep ==
  ASSUME ThreadInv, WokenInv', \A m \in Messages : way[m] # None => way'[m] = way[m],
         [Next]_vars
  PROVE  Holds' /\ Named' /\ Numbered' /\ OneThread'
<1> DEFINE Good == Holds' /\ Named' /\ Numbered' /\ OneThread'
<1>0. TypeOK BY DEF ThreadInv, WokenInv
<1>1. ASSUME UNCHANGED <<threads, task, raced>> PROVE Good
  BY <1>1, SameNames, SameHolds
<1>2. ASSUME NEW i \in Slots, raced' = raced, NEW t \in DOMAIN threads, NEW u,
             threads' = threads \/ threads' = [threads EXCEPT ![t].unread = u],
             \A k \in Slots : task'[k].step \in {"identify", "link", "add", "touch"} =>
               task'[k] = task[k]
      PROVE  Good
  <2>1. /\ DOMAIN threads' = DOMAIN threads
        /\ \A s \in DOMAIN threads :
             /\ threads'[s].user = threads[s].user /\ threads'[s].phone = threads[s].phone
             /\ threads'[s].opener = threads[s].opener
    BY <1>0, <1>2, TouchedNames
  <2> QED BY <1>2, <2>1, SameNames, SameHolds
<1>3. ASSUME NEW i \in Slots, Looks(i) PROVE Good
  <2>1. /\ UNCHANGED <<threads, raced>>
        /\ task' = task \/ task' = [task EXCEPT ![i].step = "search"]
    BY <1>3 DEF Looks
  <2>2. \A k \in Slots : task'[k] = task[k] \/ task'[k].step = "search"
    BY <1>0, <2>1 DEF TypeOK, Task
  <2> QED BY <2>1, <2>2, SameNames, SameHolds
<1>4. ASSUME NEW i \in Slots, Throws(i), raced' = raced PROVE Good
  <2>1. \A k \in Slots : task'[k].step # "idle" => task'[k] = task[k]
    BY <1>0, <1>4 DEF TypeOK, Idle, Throws
  <2>2. threads' = threads BY <1>4 DEF Throws
  <2> QED BY <1>4, <2>1, <2>2, SameNames, SameHolds
<1>5. ASSUME NEW i \in Slots, Links(i) PROVE Good
  <2> DEFINE c == clientePeloTelefone(way[i[1]])
  <2>1. /\ threads' = threads \/ threads' = [threads EXCEPT ![task[i].thread].customer = c]
        /\ task[i].step = "link" /\ task' = [task EXCEPT ![i].step = "add"] /\ raced' = raced
    BY <1>5 DEF Links
  <2> HIDE DEF c
  <2>2. threads \in Seq(Thread) /\ task[i].thread \in DOMAIN threads BY <1>0, <2>1 DEF TypeOK
  <2>3. \A s \in DOMAIN threads : threads[s] \in Thread BY <2>2
  <2>4. CASE threads' = [threads EXCEPT ![task[i].thread].customer = c]
    <3>1. /\ DOMAIN threads' = DOMAIN threads
          /\ \A s \in DOMAIN threads :
               /\ threads'[s].user = threads[s].user /\ threads'[s].phone = threads[s].phone
               /\ threads'[s].opener = threads[s].opener
      BY <2>2, <2>3, <2>4 DEF Thread
    <3>2. Named' /\ Numbered' /\ OneThread' BY <2>1, <3>1, SameNames
    <3>3. \A k \in Slots : k # i => task'[k] = task[k] BY <1>0, <2>1 DEF TypeOK
    <3>4. task'[i].step = "add" /\ task'[i].thread = task[i].thread
      BY <1>0, <2>1 DEF TypeOK, Task
    <3> QED BY <2>1, <3>1, <3>2, <3>3, <3>4, SameHolds
  <2>5. CASE threads' = threads
    <3>1. \A k \in Slots : k # i => task'[k] = task[k] BY <1>0, <2>1 DEF TypeOK
    <3>2. task'[i].step = "add" /\ task'[i].thread = task[i].thread
      BY <1>0, <2>1 DEF TypeOK, Task
    <3> QED BY <2>1, <2>5, <3>1, <3>2, SameNames, SameHolds
  <2> QED BY <2>1, <2>4, <2>5
<1>6. ASSUME NEW i \in Slots, Adds(i) PROVE Good
  <2>1. CASE Fresh(i[1])
    <3>1. /\ task' = [task EXCEPT ![i].step = "touch"] /\ task[i].step = "add"
          /\ UNCHANGED <<threads, raced>>
      BY <1>6, <2>1 DEF Adds
    <3>2. \A k \in Slots : k # i => task'[k] = task[k] BY <1>0, <3>1 DEF TypeOK
    <3>3. task'[i].step = "touch" /\ task'[i].thread = task[i].thread
      BY <1>0, <3>1 DEF TypeOK, Task
    <3> QED BY <3>1, <3>2, <3>3, SameNames, SameHolds
  <2>2. CASE ~ Fresh(i[1]) BY <1>4, <1>6, <2>2 DEF Adds
  <2> QED BY <2>1, <2>2
<1>7. ASSUME NEW i \in Slots, Touches(i) PROVE Good
  <2>1. /\ threads' = Touched(task[i].thread, i[1]) /\ task' = [task EXCEPT ![i] = Idle]
        /\ task[i].thread \in DOMAIN threads /\ raced' = raced
    BY <1>0, <1>7 DEF Touches, TypeOK
  <2>2. \E u : threads' = [threads EXCEPT ![task[i].thread].unread = u]
    BY <2>1 DEF Touched
  <2>3. \A k \in Slots : task'[k].step # "idle" => task'[k] = task[k]
    BY <1>0, <2>1 DEF TypeOK, Idle
  <2> QED BY <1>2, <2>1, <2>2, <2>3
<1>8. ASSUME NEW i \in Slots, Receives(i) PROVE Good
  BY <1>3, <1>5, <1>6, <1>7, <1>8, SearchesThread, OpensThread, IdentifiesThread DEF Receives
<1>9. ASSUME NEW i \in Slots, Breaks(i) PROVE Good BY <1>4, <1>9 DEF Breaks
<1>10. ASSUME NEW t \in DOMAIN threads, Reads(t) PROVE Good
  <2>1. threads' = [threads EXCEPT ![t].unread = 0] /\ UNCHANGED <<task, raced>>
    BY <1>10 DEF Reads
  <2>2. /\ DOMAIN threads' = DOMAIN threads
        /\ \A s \in DOMAIN threads :
             /\ threads'[s].user = threads[s].user /\ threads'[s].phone = threads[s].phone
             /\ threads'[s].opener = threads[s].opener
    BY <1>0, <2>1, TouchedNames
  <2> QED BY <2>1, <2>2, SameNames, SameHolds
<1>11. ASSUME NEW m \in Replies, ReplyTouches(m) PROVE Good
  <2>1. /\ threads' = Touched(reply[m][2], m) /\ UNCHANGED <<task, raced>>
        /\ reply[m][2] \in DOMAIN threads
    BY <1>11 DEF ReplyTouches, ThreadInv, WokenInv, Answers
  <2>2. PICK u : threads' = [threads EXCEPT ![reply[m][2]].unread = u]
    BY <2>1 DEF Touched
  <2>3. /\ DOMAIN threads' = DOMAIN threads
        /\ \A s \in DOMAIN threads :
             /\ threads'[s].user = threads[s].user /\ threads'[s].phone = threads[s].phone
             /\ threads'[s].opener = threads[s].opener
    BY <1>0, <2>1, <2>2, TouchedNames
  <2> QED BY <2>1, <2>3, SameNames, SameHolds
<1>12. ASSUME NEW m \in Replies, ProviderTakes(m) \/ ReplyAdds(m) \/ ReplyFails(m) PROVE Good
  BY <1>1, <1>12 DEF ProviderTakes, ReplyAdds, ReplyFails
<1> QED BY <1>1, <1>8, <1>9, <1>10, <1>11, <1>12 DEF Next, Writes, SendBegins, vars

\* AT-05, AT-06: whatever was shown, in whichever order it was taken, a contact
\* whose messages all showed its number has one conversation, unless two
\* deliveries opened it at once.
THEOREM OneThreadPerContact == Spec => []OneThread
<1>1. Init => ThreadInv
  <2>1. Init => WokenInv /\ Addressed BY WokenInit
  <2>2. Init => Named /\ Holds /\ Numbered /\ OneThread
    BY DEF Init, Idle, Named, Holds, Numbered, OneThread
  <2> QED BY <2>1, <2>2 DEF ThreadInv
<1>2. ThreadInv /\ [Next]_vars => ThreadInv'
  <2> SUFFICES ASSUME ThreadInv, [Next]_vars PROVE ThreadInv' OBVIOUS
  <2>1. WokenInv /\ Addressed BY DEF ThreadInv
  <2>2. WokenInv' BY <2>1, TypeStep, WokenStep
  <2>3. Addressed' /\ \A m \in Messages : way[m] # None => way'[m] = way[m] BY <2>1, WayKept
  <2>4. Holds' /\ Named' /\ Numbered' /\ OneThread' BY <2>2, <2>3, ThreadStep
  <2> QED BY <2>2, <2>3, <2>4 DEF ThreadInv
<1>3. ThreadInv => OneThread BY DEF ThreadInv
<1> QED BY <1>1, <1>2, <1>3, PTL DEF Spec

=============================================================================
