------------------------------- MODULE Inbox -------------------------------
(***************************************************************************)
(* The WhatsApp inbox of a tenant: the provider delivers every message of  *)
(* a contact, typed on the paired phone or sent by the team, again and     *)
(* again until it gets a 200, and each delivery finds or opens the         *)
(* conversation of the contact, stores the message and fires automations.  *)
(*                                                                         *)
(* A contact is addressed by its LID, by its number, or by both, and the   *)
(* number has two spellings.  Bound: so many deliveries of a message are   *)
(* under way at once, a reply is sent once.                                *)
(***************************************************************************)
EXTENDS Naturals, Sequences, FiniteSets

CONSTANTS Messages,
          Inbound,      \* the contact's; the others go out
          Replies,      \* those the team sends from the inbox
          Contact,      \* of each message
          Ways,         \* how the provider may address each message
          Lids, Phones,
          Twin,         \* outraGrafia; of a number that has none, itself
          Cards, CardPhone,   \* customers and the number on their card; bound: the same all along
          Slots,        \* deliveries that may be under way at once: message, number
          None,
          MaxFaults     \* bound: crashes, errors of the database, answers that are late or lost

Way == [lid : Lids \cup {None}, phone : Phones \cup {None}]

\* Mutant: the LID alone, as identidadeDe would answer without the number.
lidAlone(w) == w.lid

\* identidadeDe: the LID when there is one.
channelUserId(w) == IF w.lid # None THEN w.lid ELSE w.phone

ASSUME InboxAssumption ==
  /\ Inbound \cap Replies = {} /\ Inbound \cup Replies \subseteq Messages
  /\ IsFiniteSet(Messages) /\ None \notin Lids \cup Phones \cup Cards \cup Way
  /\ None \notin [thread : Nat, by : {"webhook", "team"}]
  /\ Twin \in [Phones -> Phones] /\ \A p \in Phones : Twin[Twin[p]] = p
  /\ CardPhone \in [Cards -> Phones]
  /\ Ways \in [Messages -> SUBSET Way] /\ DOMAIN Contact = Messages
  /\ \A m \in Messages : \A w \in Ways[m] : w.lid # None \/ w.phone # None
  /\ Slots \subseteq Messages \X Nat /\ MaxFaults \in Nat

\* All that may call a contact.
Names(w) == {w.lid, w.phone} \cup {Twin[p] : p \in Phones \cap {w.phone}}

\* A contact keeps its number, and nobody else answers to its names.
ASSUME ContactAssumption ==
  \A m, n \in Messages : \A v \in Ways[m], w \in Ways[n] :
    IF Contact[m] = Contact[n]
      THEN v.phone # None /\ w.phone # None => v.phone \in {w.phone, Twin[w.phone]}
      ELSE Names(v) \cap Names(w) \subseteq {None}

VARIABLES
  way,       \* how each message that exists is addressed, None before
  threads,   \* the conversations
  stored,    \* the row of each message: its conversation and who wrote it
  acked,     \* deliveries answered with 200
  task,      \* receiveChannelMessage under way
  reply,     \* sendChannelMessage under way
  fired,     \* how often message_received or message_sent was fired
  greeted,   \* conversations whose conversation_created was fired
  raced,     \* observer: contacts two deliveries opened a conversation for
  hurt,      \* observer: messages whose delivery broke after it had written
  faults

vars == <<way, threads, stored, acked, task, reply, fired, greeted,
          raced, hurt, faults>>

\* opener: an observer, the message it was opened for.
Thread == [user : Lids \cup Phones, phone : Phones \cup {None},
           customer : Cards \cup {None}, unread : 0 .. Cardinality(Messages),
           opener : Messages]

Steps == {"idle", "search", "open", "identify", "link", "add", "touch"}

Task == [step : Steps, thread : Nat, phone : Phones \cup {None}, created : BOOLEAN]

\* Conversations, rows and requests hold values of their kind.
TypeOK ==
  /\ way \in [Messages -> Way \cup {None}]
  /\ threads \in Seq(Thread)
  /\ stored \in [Messages -> [thread : DOMAIN threads, by : {"webhook", "team"}] \cup {None}]
  /\ acked \subseteq Messages
  /\ task \in [Slots -> Task]
  /\ \A i \in Slots :
       task[i].step \in {"identify", "link", "add", "touch"} =>
         task[i].thread \in DOMAIN threads
  /\ reply \in [Replies -> {"none", "send", "add", "touch", "done", "failed"}
                           \X ({0} \cup DOMAIN threads)]
  /\ fired \in [Messages -> Nat] /\ greeted \subseteq DOMAIN threads
  /\ hurt \subseteq Messages /\ faults \in 0 .. MaxFaults

Idle == [step |-> "idle", thread |-> 0, phone |-> None, created |-> FALSE]

Init ==
  /\ way = [m \in Messages |-> None] /\ threads = <<>>
  /\ stored = [m \in Messages |-> None] /\ acked = {}
  /\ task = [i \in Slots |-> Idle]
  /\ reply = [m \in Replies |-> <<"none", 0>>]
  /\ fired = [m \in Messages |-> 0] /\ greeted = {}
  /\ raced = {} /\ hurt = {} /\ faults = 0

-----------------------------------------------------------------------------
(* The world outside.                                                      *)

\* The contact writes, or somebody of the team does on the paired phone.
Writes(m) ==
  /\ m \notin Replies /\ way[m] = None
  /\ \E w \in Ways[m] : way' = [way EXCEPT ![m] = w]
  /\ UNCHANGED <<threads, stored, acked, task, reply, fired, greeted, raced,
                 hurt, faults>>

-----------------------------------------------------------------------------
(* receiveChannelMessage.                                                  *)

\* Mutant: the spelling as it came.
variantsAsIs(p) == {p}

phoneVariants(p) == {p, Twin[p]}

\* All the ways of writing this contact.
formas(w) == {channelUserId(w)} \cup (IF w.phone = None THEN {} ELSE phoneVariants(w.phone))

Matches(w) == {t \in DOMAIN threads : {threads[t].user, threads[t].phone} \cap formas(w) # {}}

\* clientePeloTelefone: the only customer with that number, or nobody.
clientePeloTelefone(w) ==
  LET found == {c \in Cards : w.phone # None /\ CardPhone[c] \in phoneVariants(w.phone)}
  IN IF Cardinality(found) = 1 THEN CHOOSE c \in found : TRUE ELSE None

\* Mutant: an error is answered with 200.
ThrowsInSilence(i) ==
  /\ task' = [task EXCEPT ![i] = Idle] /\ acked' = acked \cup {i[1]}
  /\ UNCHANGED <<way, threads, stored, reply, fired, greeted>>

\* An error out of the request: no 200, the provider will send it again.
Throws(i) ==
  /\ task' = [task EXCEPT ![i] = Idle]
  /\ UNCHANGED <<way, threads, stored, acked, reply, fired, greeted>>

\* The provider delivers what was not answered, and again when the answer takes
\* too long, a fault; a message that has its row is ignored, which is a 200.
Looks(i) ==
  LET late == \E k \in Slots : k[1] = i[1] /\ task[k].step # "idle"
  IN /\ way[i[1]] # None /\ i[1] \notin acked /\ task[i].step = "idle"
     /\ late => faults < MaxFaults
     /\ faults' = IF late THEN faults + 1 ELSE faults
     /\ IF stored[i[1]] # None
          THEN acked' = acked \cup {i[1]} /\ task' = task
          ELSE acked' = acked /\ task' = [task EXCEPT ![i].step = "search"]
     /\ UNCHANGED <<way, threads, stored, reply, fired, greeted, raced, hurt>>

\* findFirst, in no order; converger writes only what changed.
Searches(i) ==
  LET w == way[i[1]]
      Found(t) ==
        LET seen == threads[t]
            mudou == seen.user # channelUserId(w) \/ (w.phone # None /\ seen.phone # w.phone)
        IN [task[i] EXCEPT !.thread = t,
              !.phone = IF w.phone = None THEN seen.phone ELSE w.phone,
              !.step = IF mudou THEN "identify"
                       ELSE IF seen.customer = None THEN "link" ELSE "add"]
  IN /\ task[i].step = "search"
     /\ \/ Matches(w) = {} /\ task' = [task EXCEPT ![i].step = "open"]
        \/ \E t \in Matches(w) : task' = [task EXCEPT ![i] = Found(t)]
     /\ UNCHANGED <<way, threads, stored, acked, reply, fired, greeted, raced,
                    hurt, faults>>

\* Unique (tenant, channel, channelUserId).
Taken(user, t) == \E s \in DOMAIN threads : s # t /\ threads[s].user = user

\* createConversation, with the customer its number tells.
Opens(i) ==
  LET w == way[i[1]]
      new == [user |-> channelUserId(w), phone |-> w.phone,
              customer |-> clientePeloTelefone(w), unread |-> 0, opener |-> i[1]]
  IN /\ task[i].step = "open"
     /\ raced' = IF Matches(w) = {} THEN raced ELSE raced \cup {Contact[i[1]]}
     /\ IF Taken(new.user, 0)
          THEN Throws(i)
          ELSE /\ threads' = Append(threads, new)
               /\ task' = [task EXCEPT ![i] =
                    [@ EXCEPT !.thread = Len(threads) + 1, !.created = TRUE,
                              !.step = IF new.customer = None THEN "link" ELSE "add"]]
               /\ UNCHANGED <<way, stored, acked, reply, fired, greeted>>
     /\ UNCHANGED <<hurt, faults>>

\* updateIdentity: this message's identity, whichever it is.
Identifies(i) ==
  LET t == task[i].thread
      user == channelUserId(way[i[1]])
  IN /\ task[i].step = "identify"
     /\ IF Taken(user, t)
          THEN Throws(i)
          ELSE /\ threads' = [threads EXCEPT ![t].user = user, ![t].phone = task[i].phone]
               /\ task' = [task EXCEPT ![i].step =
                             IF threads[t].customer = None THEN "link" ELSE "add"]
               /\ UNCHANGED <<way, stored, acked, reply, fired, greeted>>
     /\ UNCHANGED <<raced, hurt, faults>>

\* linkCustomer, at each message, while what was read had none.
Links(i) ==
  LET c == clientePeloTelefone(way[i[1]])
  IN /\ task[i].step = "link"
     /\ threads' = IF c = None THEN threads
                   ELSE [threads EXCEPT ![task[i].thread].customer = c]
     /\ task' = [task EXCEPT ![i].step = "add"]
     /\ UNCHANGED <<way, stored, acked, reply, fired, greeted, raced, hurt, faults>>

\* Mutant: the row is written over.
NotYet(m) == TRUE

\* Unique (tenant, externalId).
Fresh(m) == stored[m] = None

\* addMessage.
Adds(i) ==
  /\ task[i].step = "add"
  /\ IF Fresh(i[1])
       THEN /\ stored' = [stored EXCEPT ![i[1]] = [thread |-> task[i].thread, by |-> "webhook"]]
            /\ task' = [task EXCEPT ![i].step = "touch"]
            /\ hurt' = hurt
            /\ UNCHANGED <<way, threads, acked, reply, fired, greeted>>
       ELSE /\ Throws(i)
            /\ hurt' = IF task[i].created THEN hurt \cup {i[1]} ELSE hurt
  /\ UNCHANGED <<raced, faults>>

\* touchConversation: what comes in counts as unread, what goes out reads all.
Touched(t, m) ==
  [threads EXCEPT ![t].unread = IF m \in Inbound THEN @ + 1 ELSE 0]

\* Then the edge fires for what came in, and answers 200.  The request may die
\* in between, and the answer may get lost.
Touches(i) ==
  LET m == i[1]
      Fires == /\ fired' = IF m \in Inbound THEN [fired EXCEPT ![m] = @ + 1] ELSE fired
               /\ greeted' = IF m \in Inbound /\ task[i].created
                               THEN greeted \cup {task[i].thread} ELSE greeted
               /\ hurt' = hurt
  IN /\ task[i].step = "touch"
     /\ threads' = Touched(task[i].thread, m)
     /\ task' = [task EXCEPT ![i] = Idle]
     /\ \/ Fires /\ acked' = acked \cup {m} /\ faults' = faults
        \/ /\ faults < MaxFaults /\ faults' = faults + 1 /\ acked' = acked
           /\ Fires \/ (UNCHANGED <<fired, greeted>> /\ hurt' = hurt \cup {m})
     /\ UNCHANGED <<way, stored, reply, raced>>

\* A deploy, or the database fails.
Breaks(i) ==
  /\ task[i].step # "idle" /\ faults < MaxFaults
  /\ Throws(i)
  /\ faults' = faults + 1
  /\ hurt' = IF task[i].created \/ task[i].step = "touch"
               THEN hurt \cup {i[1]} ELSE hurt
  /\ raced' = raced

-----------------------------------------------------------------------------
(* The team: sendChannelMessage, markConversationRead.                     *)

\* Moves the reply on.
Becomes(m, step) == reply' = [reply EXCEPT ![m] = <<step, @[2]>>]

\* It is dialled by the number of the conversation.
Dials(m, t) ==
  threads[t].phone # None /\ \E w \in Ways[m] : w.phone \in phoneVariants(threads[t].phone)

SendBegins(m, t) ==
  /\ reply[m][1] = "none" /\ Dials(m, t)
  /\ reply' = [reply EXCEPT ![m] = <<"send", t>>]
  /\ UNCHANGED <<way, threads, stored, acked, task, fired, greeted, raced,
                 hurt, faults>>

\* The provider takes it, and its echo is a message to deliver from now on.
ProviderTakes(m) ==
  /\ reply[m][1] = "send" /\ Becomes(m, "add")
  /\ \E w \in Ways[m] : way' = [way EXCEPT ![m] = w]
  /\ UNCHANGED <<threads, stored, acked, task, fired, greeted, raced, hurt, faults>>

\* addMessage: the echo may have come first, and the key is taken.
ReplyAdds(m) ==
  /\ reply[m][1] = "add"
  /\ IF stored[m] = None
       THEN Becomes(m, "touch")
            /\ stored' = [stored EXCEPT ![m] = [thread |-> reply[m][2], by |-> "team"]]
       ELSE Becomes(m, "failed") /\ stored' = stored
  /\ UNCHANGED <<way, threads, acked, task, fired, greeted, raced, hurt, faults>>

\* touchConversation, then message_sent and the answer to the team.
ReplyTouches(m) ==
  /\ reply[m][1] = "touch" /\ Becomes(m, "done")
  /\ threads' = Touched(reply[m][2], m)
  /\ fired' = [fired EXCEPT ![m] = @ + 1]
  /\ UNCHANGED <<way, stored, acked, task, greeted, raced, hurt, faults>>

\* The provider refuses, or the request dies.
ReplyFails(m) ==
  /\ reply[m][1] \in {"send", "add", "touch"} /\ faults < MaxFaults
  /\ Becomes(m, "failed") /\ faults' = faults + 1
  /\ UNCHANGED <<way, threads, stored, acked, task, fired, greeted, raced, hurt>>

Reads(t) ==
  /\ threads[t].unread > 0
  /\ threads' = [threads EXCEPT ![t].unread = 0]
  /\ UNCHANGED <<way, stored, acked, task, reply, fired, greeted, raced, hurt, faults>>

-----------------------------------------------------------------------------

Receives(i) ==
  \/ Looks(i) \/ Searches(i) \/ Opens(i) \/ Identifies(i)
  \/ Links(i) \/ Adds(i) \/ Touches(i)

Next ==
  \/ \E m \in Messages : Writes(m)
  \/ \E i \in Slots : Receives(i) \/ Breaks(i)
  \/ \E m \in Replies :
       \/ \E t \in DOMAIN threads : SendBegins(m, t)
       \/ ProviderTakes(m) \/ ReplyAdds(m) \/ ReplyTouches(m) \/ ReplyFails(m)
  \/ \E t \in DOMAIN threads : Reads(t)

\* The provider delivers until it gets a 200 and the server goes on with what
\* it began; nobody owes a message, an answer of the team or a fault.
Fairness == \A i \in Slots : WF_vars(Receives(i))

Spec == Init /\ [][Next]_vars /\ Fairness

-----------------------------------------------------------------------------
(* Properties.                                                             *)

\* However often a message is delivered, twice at a time, and whichever of the
\* reply and its echo wins (AT-03): an automation is woken once by what came in
\* and never by an echo, a conversation counts as unread only what it holds,
\* and what was stored wakes its automations, the first message of a contact
\* those of a new conversation too, unless its delivery broke after writing.
WokenOnce ==
  /\ \A m \in Messages : fired[m] <= IF m \in Inbound THEN 1
       ELSE IF stored[m] # None /\ stored[m].by = "team" THEN 1 ELSE 0
  /\ \A t \in DOMAIN threads :
       threads[t].unread <= Cardinality({m \in Inbound : stored[m] # None /\ stored[m].thread = t})
  /\ \A m \in Inbound \ hurt : stored[m] # None /\ fired[m] = 0 =>
       \E i \in Slots : i[1] = m /\ task[i].step = "touch"
  /\ \A t \in DOMAIN threads \ greeted :
       threads[t].opener \in Inbound \ hurt =>
         \E i \in Slots : i[1] = threads[t].opener /\ task[i].created

\* AT-05, AT-06 ("as duas grafias caem na mesma conversa"): a contact whose
\* messages all showed its number has one conversation, whatever else each one
\* showed and in whichever order they were taken, unless two of them opened it
\* at once.
OneThread ==
  \A s, t \in DOMAIN threads :
    LET c == Contact[threads[s].opener]
    IN /\ s # t /\ c = Contact[threads[t].opener] /\ c \notin raced
       => \E m \in Messages : Contact[m] = c /\ way[m] # None /\ way[m].phone = None

\* Two conversations answer to the names a message carries.
Split(m) == way[m] # None /\ Cardinality(Matches(way[m])) > 1

\* AT-03 and sendChannelMessage.ts 50-52: what was written, or sent and lost
\* before it was stored, comes to the inbox in the end, unless two conversations
\* answer to the names it carries.
ArrivesInTheEnd ==
  \A m \in Messages :
    (way[m] # None) ~> (stored[m] # None \/ Split(m))

=============================================================================
