--------------------------- MODULE TgUpdatesProofs ---------------------------
(***************************************************************************)
(* Proofs about the updates between an answer and its handlers, for any    *)
(* number of updates, of any shapes, in answers of any length: no memory a *)
(* handler reads is gone, no block is lost, no update handled twice.       *)
(***************************************************************************)
EXTENDS TgUpdates, SequenceTheorems, FiniteSetTheorems, TLAPS

Fields == {"from", "chat", "entities"}

----------------------------------------------------------------------------
(* One element: what tgj_get_update does to a slot and to the heap.          *)

\* A slot being filled.
Filling == [up : SlotType, heap : SUBSET Pointers]

LEMMA ConstantFacts ==
    /\ MaxUpdates \in Nat \ {0} /\ BatchMax \in Nat \ {0} /\ MaxFailures \in Nat
    /\ Backlog \in Nat \ {0} /\ Threads \in Nat \ {0}
    /\ Kinds \subseteq Shapes \cup {"null"} /\ NULL \notin Updates
  BY UpdatesAssumption, NullAssumption DEF Updates

LEMMA BlockFacts ==
    ASSUME NEW u \in Updates, NEW field \in Fields
    PROVE  <<u, field>> \in Pointers /\ <<u, field>> # NULL
<1>1. <<u, field>> \in Int \X Fields
  BY ConstantFacts DEF Fields, Updates
<1> QED BY <1>1, NullAssumption DEF Pointers, Fields

\* A block is stored in its field, and only there.
LEMMA AllocFrom ==
    ASSUME NEW s \in Filling, NEW u \in Updates
    PROVE  LET r == Alloc(s, u, "from")
           IN  /\ r \in Filling /\ r.heap = s.heap \cup {<<u, "from">>}
               /\ r.up.from = <<u, "from">> /\ r.up.chat = s.up.chat
               /\ r.up.entities = s.up.entities /\ r.up.update_id = s.up.update_id
               /\ r.up.type = s.up.type /\ r.up.mtype = s.up.mtype
               /\ r.up.text = s.up.text
<1>1. <<u, "from">> \in Pointers
  BY BlockFacts DEF Fields
<1> QED BY <1>1 DEF Alloc, Filling, SlotType

LEMMA AllocChat ==
    ASSUME NEW s \in Filling, NEW u \in Updates
    PROVE  LET r == Alloc(s, u, "chat")
           IN  /\ r \in Filling /\ r.heap = s.heap \cup {<<u, "chat">>}
               /\ r.up.chat = <<u, "chat">> /\ r.up.from = s.up.from
               /\ r.up.entities = s.up.entities /\ r.up.update_id = s.up.update_id
               /\ r.up.type = s.up.type /\ r.up.mtype = s.up.mtype
               /\ r.up.text = s.up.text
<1>1. <<u, "chat">> \in Pointers
  BY BlockFacts DEF Fields
<1> QED BY <1>1 DEF Alloc, Filling, SlotType

LEMMA AllocEntities ==
    ASSUME NEW s \in Filling, NEW u \in Updates
    PROVE  LET r == Alloc(s, u, "entities")
           IN  /\ r \in Filling /\ r.heap = s.heap \cup {<<u, "entities">>}
               /\ r.up.entities = <<u, "entities">> /\ r.up.from = s.up.from
               /\ r.up.chat = s.up.chat /\ r.up.update_id = s.up.update_id
               /\ r.up.type = s.up.type /\ r.up.mtype = s.up.mtype
               /\ r.up.text = s.up.text
<1>1. <<u, "entities">> \in Pointers
  BY BlockFacts DEF Fields
<1> QED BY <1>1 DEF Alloc, Filling, SlotType

LEMMA FreeFrom ==
    ASSUME NEW s \in Filling
    PROVE  LET r == err_free(s, "from")
           IN  /\ r \in Filling /\ r.heap = s.heap \ {s.up.from}
               /\ r.up.from = NULL /\ r.up.chat = s.up.chat
               /\ r.up.entities = s.up.entities /\ r.up.update_id = s.up.update_id
               /\ r.up.type = s.up.type /\ r.up.mtype = s.up.mtype
               /\ r.up.text = s.up.text
<1>1. NULL \in Pointers
  BY DEF Pointers
<1> QED BY <1>1 DEF err_free, Filling, SlotType

LEMMA FreeChat ==
    ASSUME NEW s \in Filling
    PROVE  LET r == err_free(s, "chat")
           IN  /\ r \in Filling /\ r.heap = s.heap \ {s.up.chat}
               /\ r.up.chat = NULL /\ r.up.from = s.up.from
               /\ r.up.entities = s.up.entities /\ r.up.update_id = s.up.update_id
               /\ r.up.type = s.up.type /\ r.up.mtype = s.up.mtype
               /\ r.up.text = s.up.text
<1>1. NULL \in Pointers
  BY DEF Pointers
<1> QED BY <1>1 DEF err_free, Filling, SlotType

\* The three blocks, and the text and the sort of message, of two slots agree.
SameBlocks(q, p)  == q.from = p.from /\ q.chat = p.chat /\ q.entities = p.entities
SameMessage(q, p) == q.mtype = p.mtype /\ q.text = p.text

LEMMA NoBlocks ==
    ASSUME NEW p PROVE BlocksOf(p) = {} <=> p.from = NULL /\ p.chat = NULL /\ p.entities = NULL
  BY DEF BlocksOf

LEMMA StoreId ==
    ASSUME NEW s \in Filling, NEW u \in Updates
    PROVE  LET r == [s EXCEPT !.up.update_id = u]
           IN  /\ r \in Filling /\ r.heap = s.heap /\ r.up.update_id = u
               /\ SameBlocks(r.up, s.up) /\ SameMessage(r.up, s.up) /\ r.up.type = s.up.type
<1>1. u \in 0 .. MaxUpdates
  BY ConstantFacts DEF Updates
<1> QED BY <1>1 DEF Filling, SlotType, SameBlocks, SameMessage

LEMMA StoreType ==
    ASSUME NEW s \in Filling, NEW type \in {"unknown", "message"}
    PROVE  LET r == [s EXCEPT !.up.type = type]
           IN  /\ r \in Filling /\ r.heap = s.heap /\ r.up.type = type
               /\ SameBlocks(r.up, s.up) /\ SameMessage(r.up, s.up)
               /\ r.up.update_id = s.up.update_id
  BY DEF Filling, SlotType, SameBlocks, SameMessage

LEMMA StoreText ==
    ASSUME NEW s \in Filling, NEW u \in Updates
    PROVE  LET r == [s EXCEPT !.up.mtype = "text", !.up.text = u]
           IN  /\ r \in Filling /\ r.heap = s.heap /\ r.up.mtype = "text" /\ r.up.text = u
               /\ SameBlocks(r.up, s.up) /\ r.up.type = s.up.type
               /\ r.up.update_id = s.up.update_id
  BY DEF Filling, SlotType, SameBlocks

LEMMA StoreOther ==
    ASSUME NEW s \in Filling
    PROVE  LET r == [s EXCEPT !.up.mtype = "other"]
           IN  /\ r \in Filling /\ r.heap = s.heap /\ r.up.mtype = "other"
               /\ SameBlocks(r.up, s.up) /\ r.up.type = s.up.type
               /\ r.up.update_id = s.up.update_id
  BY DEF Filling, SlotType, SameBlocks

\* The variant of the message: a text, perhaps with its entities, or another one.
LEMMA ArrangeVariant ==
    ASSUME NEW s \in Filling, NEW u \in Updates, NEW shp, NEW fault, s.up.entities = NULL
    PROVE  LET r == tgj_arrange_message_variant(s, u, shp, fault)
           IN  /\ r \in Filling /\ r.up.update_id = s.up.update_id /\ r.up.type = s.up.type
               /\ r.up.from = s.up.from /\ r.up.chat = s.up.chat
               /\ \/ shp = "other_message" /\ r.up.mtype = "other"
                  \/ shp # "other_message" /\ r.up.mtype = "text" /\ r.up.text = u
               /\ \/ r.up.entities = NULL /\ r.heap = s.heap
                  \/ /\ shp = "text_entities" /\ fault # "entities"
                     /\ r.up.entities = <<u, "entities">>
                     /\ r.heap = s.heap \cup {<<u, "entities">>}
<1> DEFINE r    == tgj_arrange_message_variant(s, u, shp, fault)
           text == [s EXCEPT !.up.mtype = "text", !.up.text = u]
<1>1. CASE shp = "other_message"
  <2>1. r = [s EXCEPT !.up.mtype = "other"]
    BY <1>1 DEF tgj_arrange_message_variant
  <2> QED BY <1>1, <2>1, StoreOther DEF SameBlocks
<1>2. CASE shp # "other_message"
  <2>1. /\ text \in Filling /\ text.heap = s.heap /\ text.up.mtype = "text" /\ text.up.text = u
        /\ SameBlocks(text.up, s.up) /\ text.up.type = s.up.type
        /\ text.up.update_id = s.up.update_id
    BY StoreText
  <2>2. r = IF shp = "text_entities" /\ fault # "entities" THEN Alloc(text, u, "entities")
            ELSE text
    BY <1>2 DEF tgj_arrange_message_variant
  <2> HIDE DEF text, r
  <2>3. CASE shp = "text_entities" /\ fault # "entities"
    <3>1. r = Alloc(text, u, "entities")
      BY <2>2, <2>3
    <3> QED BY <1>2, <2>1, <2>3, <3>1, AllocEntities DEF SameBlocks, r
  <2>4. CASE ~(shp = "text_entities" /\ fault # "entities")
    <3>1. r = text
      BY <2>2, <2>4
    <3> QED BY <1>2, <2>1, <3>1 DEF SameBlocks, r
  <2> QED BY <2>3, <2>4
<1> QED BY <1>1, <1>2

\* A message is kept with all its blocks, or leaves none; in the heap are the
\* blocks that were there and those of the slot.
LEMMA GetMessage ==
    ASSUME NEW s \in Filling, BlocksOf(s.up) = {}, NEW u \in Updates,
           \A field \in Fields : <<u, field>> \notin s.heap,
           NEW shp \in Messages, NEW fault \in Faults
    PROVE  LET r == tgj_get_message(s, u, shp, fault)
           IN  /\ r \in Filling /\ r.up.update_id = s.up.update_id /\ r.up.type = s.up.type
               /\ r.heap = s.heap \cup BlocksOf(r.up)
               /\ BlocksOf(r.up) \subseteq {u} \X Fields
               /\ Succeeds(shp, fault)
                    => r.up.chat = <<u, "chat">> /\ (r.up.mtype = "text" => r.up.text = u)
               /\ ~Succeeds(shp, fault)
                    => /\ BlocksOf(r.up) = {}
                       /\ \/ SameMessage(r.up, s.up)
                          \/ shp \in GoodMessages /\ (r.up.mtype = "text" => r.up.text = u)
<1> DEFINE r    == tgj_get_message(s, u, shp, fault)
           from == Alloc(s, u, "from")
           chat == Alloc(from, u, "chat")
           full == tgj_arrange_message_variant(chat, u, shp, fault)
<1>0. /\ s.up.from = NULL /\ s.up.chat = NULL /\ s.up.entities = NULL
      /\ <<u, "from">> # NULL /\ <<u, "chat">> # NULL /\ <<u, "entities">> # NULL
      /\ <<u, "from">> \notin s.heap /\ <<u, "chat">> \notin s.heap
      /\ {<<u, "from">>, <<u, "chat">>, <<u, "entities">>} \subseteq {u} \X Fields
  BY NoBlocks, BlockFacts DEF Fields
<1>1. /\ from \in Filling /\ from.heap = s.heap \cup {<<u, "from">>}
      /\ from.up.from = <<u, "from">> /\ from.up.chat = NULL /\ from.up.entities = NULL
      /\ from.up.update_id = s.up.update_id /\ from.up.type = s.up.type
      /\ SameMessage(from.up, s.up)
  BY <1>0, AllocFrom DEF SameMessage
<1> HIDE DEF from
<1>2. /\ chat \in Filling /\ chat.heap = s.heap \cup {<<u, "from">>, <<u, "chat">>}
      /\ chat.up.from = <<u, "from">> /\ chat.up.chat = <<u, "chat">>
      /\ chat.up.entities = NULL
      /\ chat.up.update_id = s.up.update_id /\ chat.up.type = s.up.type
  BY <1>1, AllocChat
<1> HIDE DEF chat
<1>3. /\ full \in Filling /\ full.up.update_id = s.up.update_id /\ full.up.type = s.up.type
      /\ full.up.from = <<u, "from">> /\ full.up.chat = <<u, "chat">>
      /\ full.up.mtype = "text" => full.up.text = u
      /\ \/ full.up.entities = NULL /\ full.heap = chat.heap
         \/ /\ shp = "text_entities" /\ fault # "entities"
            /\ full.up.entities = <<u, "entities">>
            /\ full.heap = chat.heap \cup {<<u, "entities">>}
  BY <1>2, ArrangeVariant
<1> HIDE DEF full
<1>4. r = IF shp \in {"bad_message", "bad_from"} \/ fault = "user" THEN s
          ELSE IF shp = "bad_chat" \/ fault = "chat" THEN err_free(from, "from")
          ELSE IF ~Succeeds(shp, fault) THEN err_free(err_free(full, "chat"), "from")
          ELSE full
  BY DEF tgj_get_message, from, chat, full
<1> HIDE DEF r
<1>5. CASE shp \in {"bad_message", "bad_from"} \/ fault = "user"
  <2>1. r = s /\ ~Succeeds(shp, fault)
    BY <1>4, <1>5 DEF Succeeds, GoodMessages, Messages
  <2> QED BY <2>1 DEF SameMessage, r
<1>6. CASE /\ ~(shp \in {"bad_message", "bad_from"} \/ fault = "user")
           /\ shp = "bad_chat" \/ fault = "chat"
  <2>1. r = err_free(from, "from") /\ ~Succeeds(shp, fault)
    BY <1>4, <1>6 DEF Succeeds, GoodMessages, Messages
  <2>2. /\ r \in Filling /\ r.heap = from.heap \ {<<u, "from">>}
        /\ r.up.from = NULL /\ r.up.chat = NULL /\ r.up.entities = NULL
        /\ r.up.update_id = s.up.update_id /\ r.up.type = s.up.type
        /\ SameMessage(r.up, s.up)
    BY <1>1, <2>1, FreeFrom DEF SameMessage
  <2>3. BlocksOf(r.up) = {} /\ r.heap = s.heap
    BY <1>0, <1>1, <2>2, NoBlocks
  <2> QED BY <2>1, <2>2, <2>3 DEF r
<1>7. CASE /\ ~(shp \in {"bad_message", "bad_from"} \/ fault = "user")
           /\ ~(shp = "bad_chat" \/ fault = "chat") /\ ~Succeeds(shp, fault)
  <2>1. /\ r = err_free(err_free(full, "chat"), "from")
        /\ shp = "text_entities" /\ fault = "entities" /\ shp \in GoodMessages
    BY <1>4, <1>7 DEF Succeeds, GoodMessages, Messages
  <2> DEFINE half == err_free(full, "chat")
  <2>2. /\ half \in Filling /\ half.heap = full.heap \ {<<u, "chat">>}
        /\ half.up.from = <<u, "from">> /\ half.up.chat = NULL /\ half.up.entities = NULL
        /\ half.up.update_id = s.up.update_id /\ half.up.type = s.up.type
        /\ half.up.mtype = "text" => half.up.text = u
    BY <1>3, <2>1, FreeChat
  <2> HIDE DEF half
  <2>3. r = err_free(half, "from")
    BY <2>1 DEF half
  <2>4. /\ r \in Filling /\ r.heap = half.heap \ {<<u, "from">>}
        /\ r.up.from = NULL /\ r.up.chat = NULL /\ r.up.entities = NULL
        /\ r.up.update_id = s.up.update_id /\ r.up.type = s.up.type
        /\ r.up.mtype = "text" => r.up.text = u
    BY <2>2, <2>3, FreeFrom
  <2>5. BlocksOf(r.up) = {} /\ r.heap = s.heap
    BY <1>0, <1>2, <1>3, <2>1, <2>2, <2>4, NoBlocks
  <2> QED BY <1>7, <2>1, <2>4, <2>5 DEF r
<1>8. CASE Succeeds(shp, fault)
  <2>1. r = full
    BY <1>4, <1>8 DEF Succeeds, GoodMessages, Messages
  <2>2. /\ BlocksOf(r.up) \subseteq {u} \X Fields
        /\ r.heap = s.heap \cup BlocksOf(r.up)
    BY <1>0, <1>2, <1>3, <2>1 DEF BlocksOf
  <2> QED BY <1>3, <1>8, <2>1, <2>2 DEF r
<1> QED BY <1>5, <1>6, <1>7, <1>8

\* The same for the whole element: its id is stored first, so that a slot names
\* the last element that was put into it, whether it was kept or not.
LEMMA GetUpdate ==
    ASSUME NEW s \in Filling, BlocksOf(s.up) = {}, NEW u \in Updates,
           \A field \in Fields : <<u, field>> \notin s.heap,
           NEW shp \in Shapes, NEW fault \in Faults
    PROVE  LET r == tgj_get_update(s, u, shp, fault)
           IN  /\ r \in Filling
               /\ r.up.update_id = IF shp = "no_id" THEN s.up.update_id ELSE u
               /\ r.heap = s.heap \cup BlocksOf(r.up)
               /\ BlocksOf(r.up) \subseteq {u} \X Fields
               /\ Succeeds(shp, fault)
                    => /\ shp # "no_id"
                       /\ ReadsText(r.up) => r.up.text = u /\ r.up.chat = <<u, "chat">>
               /\ ~Succeeds(shp, fault)
                    => /\ BlocksOf(r.up) = {}
                       /\ \/ SameMessage(r.up, s.up)
                          \/ shp \in GoodMessages /\ (r.up.mtype = "text" => r.up.text = u)
<1> DEFINE r     == tgj_get_update(s, u, shp, fault)
           known == [s EXCEPT !.up.update_id = u]
           typed(type) == [known EXCEPT !.up.type = type]
<1>1. /\ known \in Filling /\ known.heap = s.heap /\ known.up.update_id = u
      /\ SameBlocks(known.up, s.up) /\ SameMessage(known.up, s.up)
  BY StoreId
<1>2. r = IF shp = "no_id" THEN s
          ELSE IF shp = "other_update" THEN typed("unknown")
          ELSE tgj_get_message(typed("message"), u, shp, fault)
  BY DEF tgj_get_update
<1> HIDE DEF known
<1>3. ASSUME NEW type \in {"unknown", "message"}
      PROVE  /\ typed(type) \in Filling /\ typed(type).heap = s.heap
             /\ typed(type).up.update_id = u /\ typed(type).up.type = type
             /\ SameMessage(typed(type).up, s.up) /\ BlocksOf(typed(type).up) = {}
  <2>1. /\ typed(type) \in Filling /\ typed(type).heap = known.heap
        /\ typed(type).up.type = type /\ typed(type).up.update_id = known.up.update_id
        /\ SameBlocks(typed(type).up, known.up) /\ SameMessage(typed(type).up, known.up)
    BY <1>1, StoreType
  <2> HIDE DEF typed
  <2> QED BY <1>1, <2>1, NoBlocks DEF SameBlocks, SameMessage
<1> HIDE DEF r, typed
<1>4. CASE shp = "no_id"
  <2>1. r = s /\ ~Succeeds(shp, fault)
    BY <1>2, <1>4 DEF Succeeds, GoodMessages
  <2> QED BY <1>4, <2>1 DEF SameMessage, r
<1>5. CASE shp = "other_update"
  <2>1. r = typed("unknown") /\ Succeeds(shp, fault)
    BY <1>2, <1>5 DEF Succeeds
  <2> QED BY <1>3, <1>5, <2>1 DEF ReadsText, r
<1>6. CASE shp # "no_id" /\ shp # "other_update"
  <2>1. shp \in Messages
    BY <1>6 DEF Shapes
  <2> DEFINE m == typed("message")
  <2>2. /\ m \in Filling /\ m.heap = s.heap /\ m.up.update_id = u /\ m.up.type = "message"
        /\ SameMessage(m.up, s.up) /\ BlocksOf(m.up) = {}
    BY <1>3
  <2>3. r = tgj_get_message(m, u, shp, fault)
    BY <1>2, <1>6
  <2> HIDE DEF m
  <2>4. \A field \in Fields : <<u, field>> \notin m.heap
    BY <2>2
  <2>5. /\ r \in Filling /\ r.up.update_id = u
        /\ r.heap = s.heap \cup BlocksOf(r.up)
        /\ BlocksOf(r.up) \subseteq {u} \X Fields
        /\ Succeeds(shp, fault)
             => r.up.chat = <<u, "chat">> /\ (r.up.mtype = "text" => r.up.text = u)
        /\ ~Succeeds(shp, fault)
             => /\ BlocksOf(r.up) = {}
                /\ \/ SameMessage(r.up, m.up)
                   \/ shp \in GoodMessages /\ (r.up.mtype = "text" => r.up.text = u)
    BY <2>1, <2>2, <2>3, <2>4, GetMessage
  <2> QED BY <1>6, <2>2, <2>5 DEF SameMessage, ReadsText, r
<1> QED BY <1>4, <1>5, <1>6

----------------------------------------------------------------------------
(* The invariant.                                                            *)

\* The answer has been parsed in part, or as a whole.
Parsing == pc \in {"parse", "undefined"}
Seen    == IF Parsing THEN i ELSE Len(updates)

\* All slots that were ever allocated, the id in one of the answer's, and the
\* updates that must reach a handler.
Known   == Slots(updates) \cup old
Id(k)   == updates[k].update_id
Good(u) == shape[u] \in Parsable /\ u \notin lost

\* A slot from which a handler reads a text whose element was not lost.
Claims(up) == ReadsText(up) /\ up.text \notin lost

\* A slot that the next element may overwrite, and what any slot may say.
Clean(up) == BlocksOf(up) = {} /\ (up.mtype = "text" => up.text \in lost)
Sound(up) ==
    /\ BlocksOf(up) \subseteq {up.update_id} \X Fields
    /\ Claims(up) => up.text = up.update_id /\ up.chat = <<up.update_id, "chat">>

Typed ==
    /\ TypeOK
    /\ updates \in Seq(SlotType) /\ Len(updates) <= BatchMax /\ i <= Len(updates)
    /\ tasks \in Seq(SlotType)

\* The offset, the answer and the phases.
Window ==
    /\ first + Len(updates) - 1 <= MaxUpdates
    /\ first - 1 <= max_update_id
    /\ Parsing => first - 1 = max_update_id /\ j <= i
    /\ pc = "poll" => updates = <<>>

\* The slots and the blocks.
Memory ==
    /\ \A up \in Known : Sound(up)
    /\ Parsing => \A k \in j + 1 .. Len(updates) : Clean(updates[k])
    /\ Slots(tasks) \subseteq (IF Parsing THEN old ELSE Known)
    /\ heap = UNION {BlocksOf(up) : up \in Known}
    /\ \A up \in old : up.update_id <= max_update_id
    /\ \A k \in DOMAIN updates : Id(k) = 0 \/ Id(k) \in first .. first + Seen - 1
    /\ pc = "hand" => \A k \in 1 .. i : Id(k) <= max_update_id

\* The references: of the answer to its elements, and of the slots to theirs.
Counted ==
    /\ \A u \in Updates : refs[u] <= 1 \/ (Parsing /\ u \in first .. first + i - 1)
    /\ Parsing => \A u \in first .. first + Len(updates) - 1 : refs[u] >= 1
    /\ Parsing => \A up \in Slots(updates) : Claims(up) => refs[up.update_id] = 2
    /\ \A up \in Known : Claims(up) => refs[up.update_id] >= 1

Inv == Typed /\ Window /\ Memory /\ Counted

----------------------------------------------------------------------------
(* Sequences.                                                                *)

LEMMA SlotsIs ==
    ASSUME NEW s \in Seq(SlotType)
    PROVE  /\ Slots(s) = {s[k] : k \in 1 .. Len(s)} /\ Slots(s) \subseteq SlotType
           /\ DOMAIN s = 1 .. Len(s) /\ Len(s) \in Nat
<1>1. DOMAIN s = 1 .. Len(s) /\ Len(s) \in Nat
  BY LenProperties
<1>2. \A k \in 1 .. Len(s) : s[k] \in SlotType
  BY ElementOfSeq
<1> QED BY <1>1, <1>2 DEF Slots

\* One slot is written, and what that makes of the array.
Put(s, n, q) == [s EXCEPT ![n] = q]

IsPut(t, s, n, q) ==
    /\ t \in Seq(SlotType) /\ Len(t) = Len(s)
    /\ t[n] = q
    /\ \A k \in 1 .. Len(s) : k # n => t[k] = s[k]
    /\ Slots(t) = {s[k] : k \in (1 .. Len(s)) \ {n}} \cup {q}

LEMMA SlotReplaced ==
    ASSUME NEW s \in Seq(SlotType), NEW n \in 1 .. Len(s), NEW q \in SlotType
    PROVE  IsPut(Put(s, n, q), s, n, q)
<1>0. PICK t : t = [s EXCEPT ![n] = q]
  OBVIOUS
<1>1. /\ t \in Seq(SlotType) /\ Len(t) = Len(s)
      /\ \A k \in 1 .. Len(s) : t[k] = IF k = n THEN q ELSE s[k]
  BY <1>0, ExceptSeq
<1>2. Slots(t) = {t[k] : k \in 1 .. Len(s)}
  BY <1>1, SlotsIs
<1>3. Put(s, n, q) = t
  BY <1>0 DEF Put
<1>4. IsPut(t, s, n, q)
  BY <1>1, <1>2 DEF IsPut
<1> QED BY <1>3, <1>4

\* One task is taken out of the middle.
Without(s, n) == SubSeq(s, 1, n - 1) \o SubSeq(s, n + 1, Len(s))

LEMMA TaskRemoved ==
    ASSUME NEW s \in Seq(SlotType), NEW n \in 1 .. Len(s)
    PROVE  /\ Without(s, n) \in Seq(SlotType) /\ Len(Without(s, n)) = Len(s) - 1
           /\ \A k \in 1 .. Len(s) - 1 :
                 Without(s, n)[k] = IF k < n THEN s[k] ELSE s[k + 1]
           /\ Slots(Without(s, n)) \subseteq Slots(s)
<1> DEFINE t == Without(s, n)
           a == SubSeq(s, 1, n - 1)
           b == SubSeq(s, n + 1, Len(s))
<1>1. /\ Len(s) \in Nat /\ n \in Nat /\ \A k \in 1 .. Len(s) : s[k] \in SlotType
  BY LenProperties, ElementOfSeq
<1>2. /\ a \in Seq(SlotType) /\ Len(a) = n - 1
      /\ \A k \in 1 .. n - 1 : a[k] = s[k]
  <2>1. /\ 1 \in Int /\ n - 1 \in Int /\ \A k \in 1 .. n - 1 : s[k] \in SlotType
    BY <1>1
  <2>2. /\ a \in Seq(SlotType)
        /\ Len(a) = IF 1 <= n - 1 THEN (n - 1) - 1 + 1 ELSE 0
        /\ \A k \in 1 .. (n - 1) - 1 + 1 : a[k] = s[1 + k - 1]
    BY <2>1, SubSeqProperties
  <2> HIDE DEF a
  <2>3. ASSUME NEW k \in 1 .. n - 1 PROVE a[k] = s[k]
    <3>1. k \in 1 .. (n - 1) - 1 + 1 /\ 1 + k - 1 = k
      BY <1>1
    <3> QED BY <2>2, <3>1
  <2> QED BY <1>1, <2>2, <2>3
<1>3. /\ b \in Seq(SlotType) /\ Len(b) = Len(s) - n
      /\ \A k \in 1 .. Len(s) - n : b[k] = s[n + k]
  <2>1. /\ n + 1 \in Int /\ Len(s) \in Int /\ \A k \in n + 1 .. Len(s) : s[k] \in SlotType
    BY <1>1
  <2>2. /\ b \in Seq(SlotType)
        /\ Len(b) = IF n + 1 <= Len(s) THEN Len(s) - (n + 1) + 1 ELSE 0
        /\ \A k \in 1 .. Len(s) - (n + 1) + 1 : b[k] = s[(n + 1) + k - 1]
    BY <2>1, SubSeqProperties
  <2> HIDE DEF b
  <2>3. ASSUME NEW k \in 1 .. Len(s) - n PROVE b[k] = s[n + k]
    <3>1. k \in 1 .. Len(s) - (n + 1) + 1 /\ (n + 1) + k - 1 = n + k
      BY <1>1
    <3> QED BY <2>2, <3>1
  <2> QED BY <1>1, <2>2, <2>3
<1>4. t = a \o b
  BY DEF Without
<1> HIDE DEF a, b, t
<1>5. /\ t \in Seq(SlotType) /\ Len(t) = Len(a) + Len(b)
      /\ \A k \in 1 .. Len(a) + Len(b) : t[k] = IF k <= Len(a) THEN a[k] ELSE b[k - Len(a)]
  <2>1. a \in Seq(SlotType) /\ b \in Seq(SlotType)
    BY <1>2, <1>3
  <2>2. /\ a \o b \in Seq(SlotType) /\ Len(a \o b) = Len(a) + Len(b)
        /\ \A k \in 1 .. Len(a) + Len(b) :
              (a \o b)[k] = IF k <= Len(a) THEN a[k] ELSE b[k - Len(a)]
    BY <2>1, ConcatProperties
  <2> QED BY <1>4, <2>2, Zenon
<1>6. Len(t) = Len(s) - 1 /\ Len(a) + Len(b) = Len(s) - 1
  <2>1. Len(t) = Len(a) + Len(b) /\ Len(a) = n - 1 /\ Len(b) = Len(s) - n
    BY <1>2, <1>3, <1>5
  <2> HIDE <1>5
  <2> QED BY <1>1, <2>1
<1>7. ASSUME NEW k \in 1 .. Len(s) - 1 PROVE t[k] = IF k < n THEN s[k] ELSE s[k + 1]
  <2>1. t[k] = IF k <= n - 1 THEN a[k] ELSE b[k - (n - 1)]
    BY <1>2, <1>5, <1>6
  <2>2. CASE k < n
    BY <1>1, <1>2, <2>1, <2>2
  <2>3. CASE ~(k < n)
    <3>1. k - (n - 1) \in 1 .. Len(s) - n /\ n + (k - (n - 1)) = k + 1 /\ ~(k <= n - 1)
      BY <1>1, <2>3
    <3>2. b[k - (n - 1)] = s[n + (k - (n - 1))]
      BY <1>3, <3>1
    <3> QED BY <2>1, <2>3, <3>1, <3>2
  <2> QED BY <2>2, <2>3
<1>8. Slots(t) \subseteq Slots(s)
  <2>1. Slots(t) = {t[k] : k \in 1 .. Len(s) - 1} /\ Slots(s) = {s[k] : k \in 1 .. Len(s)}
    BY <1>5, <1>6, SlotsIs
  <2>2. \A k \in 1 .. Len(s) - 1 : k \in 1 .. Len(s) /\ k + 1 \in 1 .. Len(s)
    BY <1>1
  <2> QED BY <1>7, <2>1, <2>2
<1> QED BY <1>5, <1>6, <1>7, <1>8 DEF t

LEMMA TaskAppended ==
    ASSUME NEW s \in Seq(SlotType), NEW q \in SlotType
    PROVE  /\ Append(s, q) \in Seq(SlotType) /\ Len(Append(s, q)) = Len(s) + 1
           /\ Append(s, q)[Len(s) + 1] = q
           /\ \A k \in 1 .. Len(s) : Append(s, q)[k] = s[k]
           /\ Slots(Append(s, q)) = Slots(s) \cup {q}
<1> DEFINE t == Append(s, q)
<1>1. /\ t \in Seq(SlotType) /\ Len(t) = Len(s) + 1 /\ t[Len(s) + 1] = q
      /\ \A k \in 1 .. Len(s) : t[k] = s[k] /\ Len(s) \in Nat
  BY AppendProperties, LenProperties
<1>2. Slots(t) = {t[k] : k \in 1 .. Len(s) + 1} /\ Slots(s) = {s[k] : k \in 1 .. Len(s)}
  BY <1>1, SlotsIs
<1>3. Len(s) \in Nat
  BY LenProperties
<1> QED BY <1>1, <1>2, <1>3

----------------------------------------------------------------------------
(* The steps.                                                                *)

LEMMA StateFacts ==
    ASSUME Typed
    PROVE  /\ first \in 1 .. MaxUpdates /\ max_update_id \in 0 .. MaxUpdates
           /\ Len(updates) \in 0 .. BatchMax /\ i \in 0 .. Len(updates)
           /\ j \in 0 .. Len(updates) /\ DOMAIN updates = 1 .. Len(updates)
           /\ \A k \in 1 .. Len(updates) : updates[k] \in SlotType /\ Id(k) \in 0 .. MaxUpdates
           /\ Slots(updates) = {updates[k] : k \in 1 .. Len(updates)}
           /\ Known \subseteq SlotType /\ Slots(tasks) \subseteq SlotType
<1>1. Len(updates) \in Nat /\ DOMAIN updates = 1 .. Len(updates)
  BY LenProperties DEF Typed
<1>2. ASSUME NEW k \in 1 .. Len(updates)
      PROVE  updates[k] \in SlotType /\ Id(k) \in 0 .. MaxUpdates
  <2>1. updates[k] \in SlotType
    BY ElementOfSeq DEF Typed
  <2> QED BY <2>1 DEF Id, SlotType
<1>3. Slots(updates) = {updates[k] : k \in 1 .. Len(updates)}
  BY SlotsIs DEF Typed
<1>4. /\ first \in 1 .. MaxUpdates /\ max_update_id \in 0 .. MaxUpdates
      /\ Len(updates) \in 0 .. BatchMax /\ i \in 0 .. Len(updates)
      /\ j \in 0 .. Len(updates)
  BY <1>1, ConstantFacts DEF Typed, TypeOK
<1>5. Known \subseteq SlotType /\ Slots(tasks) \subseteq SlotType
  BY DEF Typed, TypeOK, Known
<1> QED BY <1>1, <1>2, <1>3, <1>4, <1>5

LEMMA ZeroedIsClean ==
    /\ Zeroed \in SlotType /\ BlocksOf(Zeroed) = {} /\ Zeroed.mtype = "none"
    /\ ~ReadsText(Zeroed) /\ Zeroed.update_id = 0
  BY ConstantFacts DEF Zeroed, SlotType, Pointers, BlocksOf, ReadsText

LEMMA InitHolds == Init => Inv
<1> SUFFICES ASSUME Init PROVE Inv
  OBVIOUS
<1>1. /\ updates = <<>> /\ tasks = <<>> /\ <<>> \in Seq(SlotType) /\ Len(<<>>) = 0
      /\ Slots(<<>>) = {}
  BY EmptySeq DEF Init, Slots
<1>2. /\ first = 1 /\ i = 0 /\ j = 0 /\ max_update_id = 0 /\ old = {} /\ heap = {}
      /\ refs = [u \in Updates |-> 0] /\ pc = "poll" /\ Known = {} /\ ~Parsing
      /\ served = [u \in Updates |-> 0] /\ failures = 0 /\ lost = {}
  BY <1>1 DEF Init, Known, Parsing
<1>3. Typed
  BY <1>1, <1>2, ConstantFacts DEF Init, Typed, TypeOK
<1>4. Window
  BY <1>1, <1>2, ConstantFacts DEF Window
<1>5. Memory
  BY <1>1, <1>2 DEF Memory
<1>6. Counted
  BY <1>2 DEF Counted
<1> QED BY <1>3, <1>4, <1>5, <1>6 DEF Inv

\* A failed call, and the element that ends in undefined behaviour.
LEMMA FailureHolds == ASSUME Inv, CallFails \/ ParseNull PROVE Inv'
<1>1. /\ UNCHANGED <<shape, first, updates, i, j, heap, refs, max_update_id, tasks, old,
                     served, lost>>
      /\ failures' \in 0 .. MaxFailures
      /\ pc' = pc \/ (pc = "parse" /\ pc' = "undefined")
  BY ConstantFacts DEF CallFails, ParseNull, parser, client, Inv, Typed, TypeOK
<1>2. Typed'
  BY <1>1 DEF Inv, Typed, TypeOK
<1>3. Parsing' = Parsing /\ Seen' = Seen /\ (pc' = "hand" => pc = "hand")
      /\ (pc' = "poll" => pc = "poll")
  BY <1>1 DEF Parsing, Seen
<1>4. Window'
  BY <1>1, <1>3 DEF Inv, Window
<1>5. Memory'
  BY <1>1, <1>3 DEF Inv, Memory, Known, Clean, Sound, Claims, Id
<1>6. Counted'
  BY <1>1, <1>3 DEF Inv, Counted, Known, Claims
<1> QED BY <1>2, <1>4, <1>5, <1>6 DEF Inv

\* An answer: fresh slots, and a reference to each element.
LEMMA AnswerHolds == ASSUME Inv, Answer PROVE Inv'
<1> DEFINE a == max_update_id + 1
<1>1. PICK len \in 1 .. BatchMax :
          /\ max_update_id + len <= MaxUpdates
          /\ updates' = [k \in 1 .. len |-> Zeroed]
          /\ refs' = [u \in Updates |->
                         IF u \in max_update_id + 1 .. max_update_id + len THEN 1 ELSE refs[u]]
  BY DEF Answer
<1>2. /\ pc = "poll" /\ pc' = "parse" /\ first' = max_update_id + 1 /\ i' = 0 /\ j' = 0
      /\ UNCHANGED <<shape, max_update_id, tasks, old, served, heap, failures, lost>>
  BY DEF Answer, client
<1>3. /\ updates' \in Seq(SlotType) /\ Len(updates') = len /\ DOMAIN updates' = 1 .. len
      /\ \A k \in 1 .. len : updates'[k] = Zeroed
      /\ Slots(updates') = {Zeroed}
  <2>1. len \in Nat \ {0} /\ Zeroed \in SlotType
    BY ConstantFacts, ZeroedIsClean
  <2>2. PICK t : t = [k \in 1 .. len |-> Zeroed]
    OBVIOUS
  <2>3. t \in Seq(SlotType) /\ Len(t) = len /\ DOMAIN t = 1 .. len
    BY <2>1, <2>2, SeqDef, LenProperties
  <2>4. \A k \in 1 .. len : t[k] = Zeroed
    BY <2>2
  <2> HIDE <2>2
  <2>5. Slots(t) = {Zeroed}
    BY <2>1, <2>3, <2>4 DEF Slots
  <2>6. updates' = t
    BY <1>1, <2>2
  <2> QED BY <2>3, <2>4, <2>5, <2>6
<1>4. /\ updates = <<>> /\ ~Parsing /\ Parsing' /\ Known = old /\ Known' = {Zeroed} \cup old
      /\ Seen' = 0 /\ old \subseteq SlotType
      /\ max_update_id \in 0 .. MaxUpdates /\ len \in Nat
  BY <1>2, <1>3, StateFacts, ConstantFacts
  DEF Inv, Window, Parsing, Known, Seen, Slots, Typed, TypeOK
<1>5. Typed'
  <2>1. refs' \in [Updates -> 0 .. 2]
    BY <1>1 DEF Inv, Typed, TypeOK
  <2>2. Slots(updates') \cup Slots(tasks') \cup old' \subseteq SlotType
    BY <1>2, <1>3, <1>4, ZeroedIsClean DEF Inv, Typed, TypeOK
  <2>3. first' \in 1 .. MaxUpdates /\ j' \in 0 .. Len(updates') /\ i' \in 0 .. BatchMax
    BY <1>1, <1>2, <1>3, <1>4, ConstantFacts
  <2>4. Len(updates') <= BatchMax /\ i' <= Len(updates')
    BY <1>1, <1>2, <1>3, ConstantFacts
  <2> QED BY <1>2, <1>3, <2>1, <2>2, <2>3, <2>4 DEF Inv, Typed, TypeOK
<1>6. Window'
  BY <1>1, <1>2, <1>3, <1>4 DEF Window
<1>7. Sound(Zeroed)' /\ Clean(Zeroed)' /\ ~Claims(Zeroed)'
  BY ZeroedIsClean DEF Sound, Clean, Claims
<1>8. Memory'
  <2>1. \A up \in Known' : Sound(up)'
    BY <1>2, <1>4, <1>7 DEF Inv, Memory, Sound, Claims
  <2>2. \A k \in 1 .. len : Clean(updates[k])'
    BY <1>3, <1>7 DEF Clean
  <2>3. Slots(tasks') \subseteq old'
    BY <1>2, <1>4 DEF Inv, Memory
  <2>4. heap' = UNION {BlocksOf(up) : up \in Known'}
    BY <1>2, <1>4, ZeroedIsClean DEF Inv, Memory
  <2>5. \A k \in DOMAIN updates' : Id(k)' = 0
    BY <1>3, ZeroedIsClean DEF Id
  <2>6. \A up \in old' : up.update_id <= max_update_id'
    BY <1>2 DEF Inv, Memory
  <2>7. \A k \in j' + 1 .. Len(updates') : Clean(updates[k])'
    BY <1>2, <1>3, <2>2
  <2> QED BY <1>2, <1>4, <2>1, <2>3, <2>4, <2>5, <2>6, <2>7 DEF Memory, Parsing
<1>9. Counted'
  <2>1. \A u \in Updates : refs'[u] <= 1
    BY <1>1, <1>4 DEF Inv, Counted
  <2>2. \A u \in first' .. first' + Len(updates') - 1 : refs'[u] >= 1
    <3>1. ASSUME NEW u \in first' .. first' + Len(updates') - 1 PROVE refs'[u] >= 1
      <4>0. first' = max_update_id + 1 /\ Len(updates') = len /\ max_update_id + len <= MaxUpdates
        BY <1>1, <1>2, <1>3
      <4>1. u \in max_update_id + 1 .. max_update_id + len /\ u \in Updates
        <5> HIDE <1>1
        <5> QED BY <1>4, <4>0, ConstantFacts DEF Updates
      <4> QED BY <1>1, <4>1
    <3> QED BY <3>1
  <2>3. ASSUME NEW up \in old, Claims(up)' PROVE refs'[up.update_id] >= 1
    <3>1. Claims(up) /\ refs[up.update_id] >= 1 /\ up.update_id <= max_update_id
      BY <1>2, <1>4, <2>3 DEF Inv, Memory, Counted, Claims
    <3>2. up.text = up.update_id /\ up \in SlotType
      BY <1>4, <3>1 DEF Inv, Memory, Sound
    <3>3. up.update_id \in Updates
      BY <3>2, ConstantFacts, NullAssumption DEF SlotType, Updates
    <3>4. up.update_id \notin max_update_id + 1 .. max_update_id + len
      BY <1>4, <3>1, <3>3 DEF Updates
    <3> QED BY <1>1, <3>1, <3>3, <3>4
  <2> QED BY <1>2, <1>3, <1>4, <1>7, <2>1, <2>2, <2>3 DEF Counted
<1> QED BY <1>5, <1>6, <1>8, <1>9 DEF Inv

\* The end of the parse gives the references of the answer back.
LEMMA EndHolds == ASSUME Inv, ParseEnds PROVE Inv'
<1>1. /\ pc = "parse" /\ pc' = "hand" /\ i = Len(updates) /\ i' = 0
      /\ refs' = [u \in Updates |->
                    IF u \in first .. first + i - 1 THEN refs[u] - 1 ELSE refs[u]]
      /\ UNCHANGED <<shape, first, updates, j, heap, max_update_id, tasks, old, served,
                     failures, lost>>
  BY DEF ParseEnds, Result, client
<1>2. /\ first \in 1 .. MaxUpdates /\ i \in Nat /\ MaxUpdates \in Nat
      /\ first + Len(updates) - 1 <= MaxUpdates /\ first - 1 = max_update_id
      /\ DOMAIN updates = 1 .. Len(updates) /\ Known \subseteq SlotType
  BY <1>1, StateFacts, ConstantFacts DEF Inv, Window, Parsing
<1>3. Parsing /\ ~Parsing' /\ Seen = i /\ Seen' = i /\ Known' = Known
  BY <1>1 DEF Parsing, Seen, Known
<1>4. \A u \in Updates :
         /\ refs[u] \in 0 .. 2 /\ refs'[u] \in 0 .. 2 /\ refs'[u] <= 1
         /\ u \notin first .. first + i - 1 => refs'[u] = refs[u]
         /\ u \in first .. first + i - 1 => refs'[u] = refs[u] - 1
  <2>1. ASSUME NEW u \in Updates
        PROVE  /\ refs[u] \in 0 .. 2
               /\ refs'[u] = IF u \in first .. first + i - 1 THEN refs[u] - 1 ELSE refs[u]
               /\ u \in first .. first + i - 1 => refs[u] >= 1
               /\ u \notin first .. first + i - 1 => refs[u] <= 1
    BY <1>1, <1>3 DEF Inv, Typed, TypeOK, Counted
  <2> HIDE <1>1
  <2> QED BY <2>1
<1>5. Typed'
  <2>1. refs' \in [Updates -> 0 .. 2]
    BY <1>1, <1>4
  <2>2. i' \in 0 .. BatchMax /\ i' <= Len(updates')
    BY <1>1, <1>2, ConstantFacts
  <2> QED BY <1>1, <2>1, <2>2 DEF Inv, Typed, TypeOK
<1>6. Window'
  BY <1>1, <1>2, <1>3 DEF Window
<1>7. Memory'
  <2>1. \A up \in Known' : Sound(up)'
    BY <1>1, <1>3 DEF Inv, Memory, Sound, Claims
  <2>2. Slots(tasks') \subseteq Known'
    BY <1>1, <1>3 DEF Inv, Memory, Known
  <2>3. heap' = UNION {BlocksOf(up) : up \in Known'}
    BY <1>1, <1>3 DEF Inv, Memory
  <2>4. \A k \in DOMAIN updates' : Id(k)' = 0 \/ Id(k)' \in first' .. first' + Seen' - 1
    BY <1>1, <1>3 DEF Inv, Memory, Id
  <2>5. \A k \in 1 .. i' : FALSE
    BY <1>1
  <2>6. \A up \in old' : up.update_id <= max_update_id'
    BY <1>1 DEF Inv, Memory
  <2> QED BY <1>3, <2>1, <2>2, <2>3, <2>4, <2>5, <2>6 DEF Memory
<1>8. Counted'
  <2>1. ASSUME NEW up \in Known, Claims(up)' PROVE refs'[up.update_id] >= 1
    <3>1. Claims(up) /\ refs[up.update_id] >= 1
      BY <1>1, <2>1 DEF Inv, Counted, Claims
    <3>2. up.text = up.update_id /\ up \in SlotType
      BY <1>2, <3>1 DEF Inv, Memory, Sound
    <3>3. up.update_id \in Updates
      BY <3>2, ConstantFacts, NullAssumption DEF SlotType, Updates
    <3>4. CASE up.update_id \in first .. first + i - 1
      <4>1. up \in Slots(updates)
        <5>1. up \in old => up.update_id <= max_update_id
          BY DEF Inv, Memory
        <5>2. ~(up.update_id <= max_update_id)
          BY <1>2, <3>3, <3>4 DEF Updates
        <5> QED BY <5>1, <5>2 DEF Known
      <4>2. refs[up.update_id] = 2
        BY <1>3, <3>1, <4>1 DEF Inv, Counted
      <4> QED BY <1>4, <3>3, <3>4, <4>2
    <3>5. CASE up.update_id \notin first .. first + i - 1
      BY <1>4, <3>1, <3>3, <3>5
    <3> QED BY <3>4, <3>5
  <2> QED BY <1>3, <1>4, <2>1 DEF Counted
<1> QED BY <1>5, <1>6, <1>7, <1>8 DEF Inv

\* A slot is handed over, and the offset moves with it.
LEMMA HandHolds ==
    ASSUME Inv, HandOver
    PROVE  /\ Inv' /\ max_update_id <= max_update_id'
           /\ Id(i + 1) <= max_update_id' /\ max_update_id' \in {max_update_id, Id(i + 1)}
<1>1. /\ pc = "hand" /\ i < Len(updates) /\ i' = i + 1
      /\ max_update_id' = IF Id(i + 1) > max_update_id THEN Id(i + 1) ELSE max_update_id
      /\ tasks' = Append(tasks, updates[i + 1])
      /\ UNCHANGED <<shape, pc, first, updates, j, heap, refs, old, served, failures, lost>>
  BY DEF HandOver, Id
<1>2. /\ first \in 1 .. MaxUpdates /\ i \in 0 .. Len(updates) /\ MaxUpdates \in Nat
      /\ Len(updates) \in 0 .. BatchMax /\ BatchMax \in Nat
      /\ max_update_id \in 0 .. MaxUpdates /\ DOMAIN updates = 1 .. Len(updates)
      /\ Slots(updates) = {updates[k] : k \in 1 .. Len(updates)}
      /\ Known \subseteq SlotType
  BY StateFacts, ConstantFacts DEF Inv
<1>3. i + 1 \in 1 .. Len(updates)
  BY <1>1, <1>2
<1>4. updates[i + 1] \in SlotType /\ Id(i + 1) \in 0 .. MaxUpdates
  BY <1>3, StateFacts DEF Inv
<1>5. /\ max_update_id' \in 0 .. MaxUpdates /\ max_update_id <= max_update_id'
      /\ Id(i + 1) <= max_update_id'
  BY <1>1, <1>2, <1>4
<1>6. ~Parsing /\ ~Parsing' /\ Known' = Known /\ Seen' = Seen
  BY <1>1 DEF Parsing, Known, Seen
<1>7. tasks' \in Seq(SlotType) /\ Slots(tasks') = Slots(tasks) \cup {updates[i + 1]}
  BY <1>1, <1>4, TaskAppended DEF Inv, Typed
<1>8. Typed'
  <2>1. i' \in 0 .. BatchMax /\ i' <= Len(updates')
    BY <1>1, <1>2
  <2>2. Slots(updates') \cup Slots(tasks') \cup old' \subseteq SlotType
    BY <1>1, <1>4, <1>7 DEF Inv, Typed, TypeOK
  <2> QED BY <1>1, <1>5, <1>7, <2>1, <2>2 DEF Inv, Typed, TypeOK
<1>9. Window'
  BY <1>1, <1>2, <1>5, <1>6 DEF Inv, Window
<1>10. Memory'
  <2>1. \A up \in Known' : Sound(up)'
    BY <1>1, <1>6 DEF Inv, Memory, Sound, Claims
  <2>2. Slots(tasks') \subseteq Known'
    BY <1>2, <1>3, <1>6, <1>7 DEF Inv, Memory, Known
  <2>3. \A up \in old' : up.update_id <= max_update_id'
    <3>1. ASSUME NEW up \in old PROVE up.update_id <= max_update_id'
      <4>1. up.update_id <= max_update_id /\ up.update_id \in Int
        BY <1>2 DEF Inv, Memory, Known, SlotType
      <4> QED BY <1>2, <1>5, <4>1
    <3> QED BY <1>1, <3>1
  <2>4. \A k \in 1 .. i' : Id(k)' <= max_update_id'
    <3>1. ASSUME NEW k \in 1 .. i + 1 PROVE Id(k) <= max_update_id'
      <4>1. CASE k = i + 1
        BY <1>5, <4>1
      <4>2. CASE k # i + 1
        <5>1. k \in 1 .. i /\ k \in 1 .. Len(updates)
          BY <1>1, <1>2, <4>2
        <5>2. Id(k) <= max_update_id /\ Id(k) \in 0 .. MaxUpdates
          BY <1>1, <5>1, StateFacts DEF Inv, Memory
        <5> QED BY <1>2, <1>5, <5>2
      <4> QED BY <4>1, <4>2
    <3> QED BY <1>1, <3>1 DEF Id
  <2>5. \A k \in DOMAIN updates' : Id(k)' = 0 \/ Id(k)' \in first' .. first' + Seen' - 1
    BY <1>1, <1>6 DEF Inv, Memory, Id
  <2>6. heap' = UNION {BlocksOf(up) : up \in Known'}
    BY <1>1, <1>6 DEF Inv, Memory
  <2> QED BY <1>1, <1>6, <2>1, <2>2, <2>3, <2>4, <2>5, <2>6 DEF Memory
<1>11. Counted'
  BY <1>1, <1>6 DEF Inv, Counted, Claims
<1> QED BY <1>1, <1>5, <1>8, <1>9, <1>10, <1>11 DEF Inv

\* The array is forgotten: its slots join the old ones.
LEMMA RearmHolds == ASSUME Inv, Rearm PROVE Inv'
<1>1. /\ pc = "hand" /\ pc' = "poll" /\ i = Len(updates) /\ i' = 0 /\ j' = 0
      /\ old' = old \cup Slots(updates) /\ updates' = <<>>
      /\ UNCHANGED <<shape, first, max_update_id, tasks, heap, refs, served, failures, lost>>
  BY DEF Rearm
<1>2. /\ <<>> \in Seq(SlotType) /\ Len(<<>>) = 0 /\ Slots(<<>>) = {} /\ DOMAIN <<>> = {}
  BY EmptySeq DEF Slots
<1>3. /\ first \in 1 .. MaxUpdates /\ MaxUpdates \in Nat /\ BatchMax \in Nat
      /\ max_update_id \in 0 .. MaxUpdates /\ Known \subseteq SlotType
      /\ Slots(updates) = {updates[k] : k \in 1 .. Len(updates)}
  BY StateFacts, ConstantFacts DEF Inv
<1>4. ~Parsing /\ ~Parsing' /\ Known' = Known /\ old' = Known
  BY <1>1, <1>2 DEF Parsing, Known
<1>5. Typed'
  BY <1>1, <1>2, <1>3 DEF Inv, Typed, TypeOK
<1>6. Window'
  BY <1>1, <1>2, <1>3, <1>4 DEF Inv, Window
<1>7. Memory'
  <2>1. \A up \in old' : up.update_id <= max_update_id'
    BY <1>1, <1>3 DEF Inv, Memory, Id
  <2>2. \A up \in Known' : Sound(up)'
    BY <1>1, <1>4 DEF Inv, Memory, Sound, Claims
  <2>3. heap' = UNION {BlocksOf(up) : up \in Known'}
    BY <1>1, <1>4 DEF Inv, Memory
  <2>4. Slots(tasks') \subseteq Known'
    BY <1>1, <1>4 DEF Inv, Memory
  <2> QED BY <1>1, <1>2, <1>4, <2>1, <2>2, <2>3, <2>4 DEF Memory
<1>8. Counted'
  BY <1>1, <1>4 DEF Inv, Counted, Claims
<1> QED BY <1>5, <1>6, <1>7, <1>8 DEF Inv

\* A handler takes a slot that was handed over.
LEMMA HandleHolds == ASSUME Inv, Handle PROVE Inv'
<1>1. PICK n \in 1 .. Threads :
          /\ n \in DOMAIN tasks /\ tasks' = Without(tasks, n)
          /\ served' = IF Whole(tasks[n]) /\ served[tasks[n].update_id] < 2
                       THEN [served EXCEPT ![tasks[n].update_id] = @ + 1]
                       ELSE served
  BY DEF Handle, Without
<1>2. UNCHANGED <<shape, pc, first, updates, i, j, heap, refs, max_update_id, old,
                  failures, lost>>
  BY DEF Handle, parser
<1>3. tasks' \in Seq(SlotType) /\ Slots(tasks') \subseteq Slots(tasks)
  BY <1>1, SlotsIs, TaskRemoved DEF Inv, Typed
<1>4. served' \in [Updates -> 0 .. 2]
  <2>1. served \in [Updates -> 0 .. 2]
    BY DEF Inv, Typed, TypeOK
  <2>2. PICK u : u = tasks[n].update_id
    OBVIOUS
  <2>3. served' = served \/ (served[u] < 2 /\ u \in Updates
                               /\ served' = [served EXCEPT ![u] = served[u] + 1])
    BY <1>1, <2>1, <2>2 DEF Whole
  <2> QED BY <2>1, <2>3
<1>5. Typed'
  BY <1>2, <1>3, <1>4 DEF Inv, Typed, TypeOK
<1>6. Parsing' = Parsing /\ Known' = Known /\ Seen' = Seen
  BY <1>2 DEF Parsing, Known, Seen
<1>7. Window'
  BY <1>2, <1>6 DEF Inv, Window
<1>8. Memory'
  BY <1>2, <1>3, <1>6 DEF Inv, Memory, Sound, Claims, Clean, Id
<1>9. Counted'
  BY <1>2, <1>6 DEF Inv, Counted, Claims
<1> QED BY <1>5, <1>7, <1>8, <1>9 DEF Inv

\* The parse of an element, seen from the slot it leaves behind: q, which keeps
\* the element u, or is as clean as the slot was before.
Fills(u, n, q) ==
    /\ q \in SlotType /\ updates' = Put(updates, n, q)
    /\ BlocksOf(q) \subseteq {u} \X Fields /\ heap' = heap \cup BlocksOf(q)

Keeps(u, n, q) ==
    /\ j' = n /\ refs' = Keep(u) /\ q.update_id = u
    /\ ReadsText(q) => q.text = u /\ q.chat = <<u, "chat">>

Drops(u, n, q) ==
    /\ j' = j /\ refs' = refs /\ q.update_id \in {u, Id(n)}
    /\ BlocksOf(q) = {} /\ (q.mtype = "text" => q.text \in lost')
    /\ ~Good(u)'

LEMMA BlocksAreParsed ==
    ASSUME Inv, pc = "parse", NEW field
    PROVE  <<first + i, field>> \notin heap
<1> DEFINE u == first + i
<1>1. /\ first \in 1 .. MaxUpdates /\ i \in Nat /\ u \in Int /\ Parsing /\ Seen = i
      /\ max_update_id = first - 1 /\ DOMAIN updates = 1 .. Len(updates)
      /\ Slots(updates) = {updates[k] : k \in 1 .. Len(updates)} /\ MaxUpdates \in Nat
  BY StateFacts, ConstantFacts DEF Inv, Window, Parsing, Seen
<1>2. ASSUME NEW up \in Known, up.update_id = u PROVE FALSE
  <2>1. CASE up \in old
    BY <1>1, <1>2, <2>1 DEF Inv, Memory
  <2>2. CASE up \in Slots(updates)
    BY <1>1, <1>2, <2>2 DEF Inv, Memory, Id
  <2> QED BY <2>1, <2>2 DEF Known
<1>3. ASSUME NEW up \in Known, <<u, field>> \in BlocksOf(up) PROVE up.update_id = u
  BY <1>3 DEF Inv, Memory, Sound
<1> QED BY <1>2, <1>3 DEF Inv, Memory

LEMMA ParseMoves ==
    ASSUME Inv, ParseElement
    PROVE  \E u \in Updates, n \in 1 .. Len(updates), q \in SlotType :
              /\ u = first + i /\ n = j + 1
              /\ pc = "parse" /\ i < Len(updates) /\ i' = i + 1
              /\ lost \subseteq lost' /\ lost' \subseteq lost \cup {u}
              /\ failures' \in 0 .. MaxFailures
              /\ UNCHANGED <<shape, pc, first, max_update_id, tasks, old, served>>
              /\ Fills(u, n, q) /\ (Keeps(u, n, q) \/ Drops(u, n, q))
<1>1. /\ first \in 1 .. MaxUpdates /\ i \in 0 .. Len(updates) /\ MaxUpdates \in Nat
      /\ Len(updates) \in 0 .. BatchMax /\ BatchMax \in Nat /\ j \in 0 .. Len(updates)
      /\ \A k \in 1 .. Len(updates) : updates[k] \in SlotType
  BY StateFacts, ConstantFacts DEF Inv
<1>2. /\ pc = "parse" /\ i < Len(updates) /\ i' = i + 1 /\ shape[first + i] # "null"
      /\ UNCHANGED <<shape, pc, first, max_update_id, tasks, old, served>> /\ Parsing
  BY DEF ParseElement, client, Parsing
<1>3. PICK u : u = first + i
  OBVIOUS
<1>4. PICK n : n = j + 1
  OBVIOUS
<1>5. u \in Updates /\ n \in 1 .. Len(updates)
  BY <1>1, <1>2, <1>3, <1>4 DEF Inv, Window, Updates
<1>6. PICK shp \in Shapes : shp = shape[u]
  BY <1>2, <1>3, <1>5, ConstantFacts DEF Inv, Typed, TypeOK
<1>7. PICK s \in Filling : s = [up |-> updates[n], heap |-> heap]
  BY <1>1, <1>5 DEF Filling, Inv, Typed, TypeOK
<1>8. PICK fault \in Faults :
         LET r == tgj_get_update(s, u, shp, fault)
             spoils == Succeeds(shp, "none") /\ ~Succeeds(shp, fault)
         IN  /\ fault = "none" \/ (spoils /\ failures < MaxFailures)
             /\ updates' = [updates EXCEPT ![n] = r.up]
             /\ heap' = r.heap
             /\ j' = IF Succeeds(shp, fault) THEN n ELSE j
             /\ refs' = IF Succeeds(shp, fault) THEN Keep(u) ELSE refs
             /\ failures' = IF spoils THEN failures + 1 ELSE failures
             /\ lost' = IF spoils THEN lost \cup {u} ELSE lost
  BY <1>3, <1>4, <1>6, <1>7 DEF ParseElement, NextSlot
<1>9. PICK r : r = tgj_get_update(s, u, shp, fault)
  OBVIOUS
<1>10. /\ s.up = updates[n] /\ s.heap = heap /\ Clean(s.up)
       /\ \A field \in Fields : <<u, field>> \notin s.heap
  <2>1. n \in j + 1 .. Len(updates)
    BY <1>1, <1>4, <1>5
  <2> QED BY <1>2, <1>3, <1>7, <2>1, BlocksAreParsed DEF Inv, Memory
<1>11. /\ r \in Filling
       /\ r.up.update_id = IF shp = "no_id" THEN s.up.update_id ELSE u
       /\ r.heap = s.heap \cup BlocksOf(r.up)
       /\ BlocksOf(r.up) \subseteq {u} \X Fields
       /\ Succeeds(shp, fault)
            => /\ shp # "no_id"
               /\ ReadsText(r.up) => r.up.text = u /\ r.up.chat = <<u, "chat">>
       /\ ~Succeeds(shp, fault)
            => /\ BlocksOf(r.up) = {}
               /\ \/ SameMessage(r.up, s.up)
                  \/ shp \in GoodMessages /\ (r.up.mtype = "text" => r.up.text = u)
  BY <1>5, <1>9, <1>10, GetUpdate DEF Clean
<1>12. PICK q : q = r.up
  OBVIOUS
<1>13. /\ fault = "none" \/ (Succeeds(shp, "none") /\ failures < MaxFailures)
       /\ updates' = [updates EXCEPT ![n] = q] /\ heap' = r.heap
       /\ Succeeds(shp, fault) => j' = n /\ refs' = Keep(u) /\ lost' = lost
                                  /\ failures' = failures
       /\ ~Succeeds(shp, fault) => j' = j /\ refs' = refs
       /\ ~Succeeds(shp, fault) /\ Succeeds(shp, "none")
             => lost' = lost \cup {u} /\ failures' = failures + 1
       /\ ~Succeeds(shp, fault) /\ ~Succeeds(shp, "none")
             => lost' = lost /\ failures' = failures
  BY <1>8, <1>9, <1>12
<1>14. q \in SlotType /\ Fills(u, n, q)
  BY <1>10, <1>11, <1>12, <1>13 DEF Fills, Filling, Put
<1>15. CASE Succeeds(shp, fault)
  <2>1. Keeps(u, n, q)
    BY <1>11, <1>12, <1>13, <1>15 DEF Keeps
  <2>2. failures' \in 0 .. MaxFailures /\ lost' = lost
    BY <1>13, <1>15 DEF Inv, Typed, TypeOK
  <2> QED BY <1>2, <1>3, <1>4, <1>5, <1>14, <2>1, <2>2
<1>16. CASE ~Succeeds(shp, fault)
  <2>1. shp \in Parsable <=> Succeeds(shp, "none")
    BY DEF Parsable, Succeeds, GoodMessages
  <2>2. /\ failures' \in 0 .. MaxFailures /\ lost \subseteq lost'
        /\ lost' \subseteq lost \cup {u}
        /\ shp \in Parsable => u \in lost'
    <3>1. failures \in 0 .. MaxFailures /\ MaxFailures \in Nat
      BY ConstantFacts DEF Inv, Typed, TypeOK
    <3>2. CASE Succeeds(shp, "none")
      <4>1. failures < MaxFailures
        BY <1>13, <1>16, <3>2
      <4> QED BY <1>13, <1>16, <3>1, <3>2, <4>1
    <3>3. CASE ~Succeeds(shp, "none")
      BY <1>13, <1>16, <2>1, <3>1, <3>3
    <3> QED BY <3>2, <3>3
  <2>3. ~Good(u)'
    BY <1>2, <1>6, <2>2 DEF Good
  <2>4. q.mtype = "text" => q.text \in lost'
    <3>1. CASE SameMessage(r.up, s.up)
      BY <1>10, <1>12, <2>2, <3>1 DEF Clean, SameMessage
    <3>2. CASE shp \in GoodMessages /\ (r.up.mtype = "text" => r.up.text = u)
      BY <1>12, <2>2, <3>2 DEF Parsable
    <3> QED BY <1>11, <1>16, <3>1, <3>2
  <2>5. Drops(u, n, q)
    BY <1>10, <1>11, <1>12, <1>13, <1>16, <2>3, <2>4 DEF Drops, Id
  <2> QED BY <1>2, <1>3, <1>4, <1>5, <1>14, <2>2, <2>5
<1> QED BY <1>15, <1>16

\* One slot of the array changes: the slot of the next element, which was clean.
LEMMA FillsArray ==
    ASSUME Inv, NEW u, NEW n \in 1 .. Len(updates), NEW q, Fills(u, n, q),
           Clean(updates[n]), UNCHANGED old
    PROVE  /\ updates' \in Seq(SlotType) /\ Len(updates') = Len(updates)
           /\ DOMAIN updates' = 1 .. Len(updates)
           /\ updates'[n] = q /\ \A k \in 1 .. Len(updates) : k # n => updates'[k] = updates[k]
           /\ Slots(updates') \subseteq Slots(updates) \cup {q}
           /\ Known' \subseteq Known \cup {q}
           /\ heap' = UNION {BlocksOf(up) : up \in Known'}
<1>1. PICK t : t = updates'
  OBVIOUS
<1>2. /\ t \in Seq(SlotType) /\ Len(t) = Len(updates)
      /\ t[n] = q /\ \A k \in 1 .. Len(updates) : k # n => t[k] = updates[k]
      /\ Slots(t) = {updates[k] : k \in (1 .. Len(updates)) \ {n}} \cup {q}
  <2>1. updates \in Seq(SlotType) /\ q \in SlotType /\ t = Put(updates, n, q)
    BY <1>1 DEF Inv, Typed, Fills
  <2>2. q \in SlotType
    BY <2>1
  <2>3. PICK s \in Seq(SlotType) : s = updates
    BY <2>1
  <2>4. n \in 1 .. Len(s)
    BY <2>3
  <2>5. t = Put(s, n, q)
    BY <2>1, <2>3
  <2> HIDE <2>1
  <2>6. IsPut(Put(s, n, q), s, n, q)
    BY <2>2, <2>4, SlotReplaced
  <2>7. IsPut(t, s, n, q)
    BY <2>5, <2>6
  <2> HIDE <2>5
  <2> QED BY <2>3, <2>7 DEF IsPut
<1>3. DOMAIN t = 1 .. Len(t)
  BY <1>2, SlotsIs
<1>4. Slots(updates) = {updates[k] : k \in 1 .. Len(updates)}
  BY StateFacts DEF Inv
<1>5. heap' = UNION {BlocksOf(up) : up \in Slots(t) \cup old}
  <2>1. heap = UNION {BlocksOf(up) : up \in Slots(updates) \cup old}
    BY DEF Inv, Memory, Known
  <2>2. BlocksOf(updates[n]) = {}
    BY DEF Clean
  <2>3. heap' = heap \cup BlocksOf(q)
    BY DEF Fills
  <2> QED BY <1>2, <1>4, <2>1, <2>2, <2>3
<1> QED BY <1>1, <1>2, <1>3, <1>4, <1>5 DEF Known

LEMMA ParseHolds == ASSUME Inv, ParseElement PROVE Inv'
<1>0. PICK u \in Updates, n \in 1 .. Len(updates), q \in SlotType :
         /\ u = first + i /\ n = j + 1
         /\ pc = "parse" /\ i < Len(updates) /\ i' = i + 1
         /\ lost \subseteq lost' /\ lost' \subseteq lost \cup {u}
         /\ failures' \in 0 .. MaxFailures
         /\ UNCHANGED <<shape, pc, first, max_update_id, tasks, old, served>>
         /\ Fills(u, n, q) /\ (Keeps(u, n, q) \/ Drops(u, n, q))
  BY ParseMoves
<1>1. u = first + i
  BY <1>0
<1>2. n = j + 1
  BY <1>0
<1>3. /\ pc = "parse" /\ i < Len(updates) /\ i' = i + 1
      /\ u \in Updates /\ n \in 1 .. Len(updates)
      /\ lost \subseteq lost' /\ lost' \subseteq lost \cup {u}
      /\ failures' \in 0 .. MaxFailures
      /\ UNCHANGED <<shape, pc, first, max_update_id, tasks, old, served>>
  BY <1>0
<1>4. q \in SlotType /\ Fills(u, n, q) /\ (Keeps(u, n, q) \/ Drops(u, n, q))
  BY <1>0
<1>5. /\ first \in 1 .. MaxUpdates /\ i \in 0 .. Len(updates) /\ MaxUpdates \in Nat
      /\ Len(updates) \in 0 .. BatchMax /\ BatchMax \in Nat /\ j \in 0 .. Len(updates)
      /\ DOMAIN updates = 1 .. Len(updates) /\ Known \subseteq SlotType
      /\ Slots(updates) = {updates[k] : k \in 1 .. Len(updates)}
      /\ \A k \in 1 .. Len(updates) : Id(k) \in 0 .. MaxUpdates
      /\ max_update_id \in 0 .. MaxUpdates
  BY StateFacts, ConstantFacts DEF Inv
<1>6. Parsing /\ Parsing' /\ Seen = i /\ Seen' = i + 1 /\ max_update_id = first - 1 /\ j <= i
  BY <1>3 DEF Parsing, Seen, Inv, Window
<1>7. Clean(updates[n])
  <2>1. n \in j + 1 .. Len(updates)
    BY <1>2, <1>3, <1>5
  <2> QED BY <1>6, <2>1 DEF Inv, Memory
<1>8. /\ updates' \in Seq(SlotType) /\ Len(updates') = Len(updates)
      /\ DOMAIN updates' = 1 .. Len(updates)
      /\ updates'[n] = q /\ \A k \in 1 .. Len(updates) : k # n => updates'[k] = updates[k]
      /\ Slots(updates') \subseteq Slots(updates) \cup {q}
      /\ Known' \subseteq Known \cup {q}
      /\ heap' = UNION {BlocksOf(up) : up \in Known'}
  BY <1>3, <1>4, <1>7, FillsArray
<1>9. j' \in {j, n} /\ j' \in 0 .. Len(updates) /\ j' <= i'
  BY <1>2, <1>3, <1>4, <1>5, <1>6 DEF Keeps, Drops
<1>10. /\ refs[u] = 1 /\ refs \in [Updates -> 0 .. 2]
       /\ \A v \in Updates : v # u => refs'[v] = refs[v]
       /\ refs' \in [Updates -> 0 .. 2] /\ refs'[u] >= 1
       /\ Keeps(u, n, q) => refs'[u] = 2
  <2>1. refs[u] <= 1 /\ refs[u] >= 1 /\ refs \in [Updates -> 0 .. 2]
    <3>1. u \notin first .. first + i - 1 /\ u \in first .. first + Len(updates) - 1
      BY <1>1, <1>3, <1>5
    <3> QED BY <1>3, <1>6, <3>1 DEF Inv, Counted, Typed, TypeOK
  <2>2. refs[u] = 1
    BY <1>3, <2>1
  <2>3. refs' = refs \/ refs' = [refs EXCEPT ![u] = refs[u] + 1]
    BY <1>4 DEF Keeps, Drops, Keep
  <2>4. Keeps(u, n, q) => refs' = [refs EXCEPT ![u] = refs[u] + 1]
    BY DEF Keeps, Keep
  <2> QED BY <1>3, <2>1, <2>2, <2>3, <2>4
<1>11. Typed'
  <2>1. Slots(updates') \cup Slots(tasks') \cup old' \subseteq SlotType
    BY <1>3, <1>5, <1>8 DEF Inv, Typed, TypeOK
  <2>2. i' \in 0 .. BatchMax /\ i' <= Len(updates')
    BY <1>3, <1>5, <1>8
  <2>3. heap' \subseteq Pointers
    <3>1. BlocksOf(q) \subseteq Pointers
      BY <1>4 DEF SlotType, BlocksOf
    <3> QED BY <1>4, <3>1 DEF Fills, Inv, Typed, TypeOK
  <2>4. lost' \subseteq Updates
    BY <1>3 DEF Inv, Typed, TypeOK
  <2> QED BY <1>3, <1>8, <1>9, <1>10, <2>1, <2>2, <2>3, <2>4 DEF Inv, Typed, TypeOK
<1>12. Window'
  BY <1>3, <1>5, <1>6, <1>8, <1>9 DEF Inv, Window
<1>13. q.update_id = 0 \/ q.update_id \in first .. u
  <2>1. Id(n) = 0 \/ Id(n) \in first .. first + i - 1
    BY <1>3, <1>5, <1>6 DEF Inv, Memory
  <2> QED BY <1>1, <1>4, <1>5, <2>1 DEF Keeps, Drops
<1>14. Sound(q)'
  <2>1. CASE Keeps(u, n, q)
    BY <1>4, <2>1 DEF Keeps, Fills, Sound, Claims
  <2>2. CASE Drops(u, n, q)
    BY <2>2 DEF Drops, Sound, Claims, ReadsText
  <2> QED BY <1>4, <2>1, <2>2
<1>15. Memory'
  <2>1. \A up \in Known' : Sound(up)'
    <3>1. \A up \in Known : Sound(up)'
      BY <1>3 DEF Inv, Memory, Sound, Claims
    <3> QED BY <1>8, <1>14, <3>1
  <2>2. \A k \in j' + 1 .. Len(updates') : Clean(updates[k])'
    <3>1. ASSUME NEW k \in j' + 1 .. Len(updates) PROVE Clean(updates[k])'
      <4>1. CASE k = n
        <5>1. ~Keeps(u, n, q)
          BY <1>2, <1>5, <3>1, <4>1 DEF Keeps
        <5> QED BY <1>4, <1>8, <4>1, <5>1 DEF Drops, Clean
      <4>2. CASE k # n
        <5>1. k \in j + 1 .. Len(updates) /\ k \in 1 .. Len(updates)
          <6>1. k \in j' + 1 .. Len(updates) /\ k # n
            BY <3>1, <4>2
          <6>2. CASE j' = j
            BY <1>5, <6>1, <6>2
          <6>3. CASE j' = n
            BY <1>2, <1>3, <1>5, <6>1, <6>3
          <6> QED BY <1>9, <6>2, <6>3
        <5>2. Clean(updates[k]) /\ updates'[k] = updates[k]
          BY <1>6, <1>8, <4>2, <5>1 DEF Inv, Memory
        <5> QED BY <1>3, <5>2 DEF Clean
      <4> QED BY <4>1, <4>2
    <3> QED BY <1>8, <3>1
  <2>3. Slots(tasks') \subseteq old'
    BY <1>3, <1>6 DEF Inv, Memory
  <2>4. \A up \in old' : up.update_id <= max_update_id'
    BY <1>3 DEF Inv, Memory
  <2>5. \A k \in DOMAIN updates' : Id(k)' = 0 \/ Id(k)' \in first' .. first' + Seen' - 1
    <3>1. ASSUME NEW k \in 1 .. Len(updates)
          PROVE  Id(k)' = 0 \/ Id(k)' \in first .. first + (i + 1) - 1
      <4>1. CASE k = n
        BY <1>1, <1>5, <1>8, <1>13, <4>1 DEF Id
      <4>2. CASE k # n
        <5>1. Id(k)' = Id(k)
          BY <1>8, <4>2 DEF Id
        <5>2. Id(k) = 0 \/ Id(k) \in first .. first + i - 1
          BY <1>5, <1>6 DEF Inv, Memory
        <5> QED BY <1>5, <5>1, <5>2
      <4> QED BY <4>1, <4>2
    <3> QED BY <1>3, <1>6, <1>8, <3>1
  <2> QED BY <1>3, <1>6, <1>8, <2>1, <2>2, <2>3, <2>4, <2>5 DEF Memory
<1>16. Counted'
  <2>1. ASSUME NEW v \in Updates PROVE refs'[v] <= 1 \/ v \in first .. first + (i + 1) - 1
    <3>1. CASE v = u
      BY <1>1, <1>5, <3>1
    <3>2. CASE v # u
      <4>1. refs'[v] = refs[v]
        BY <1>10, <3>2
      <4>2. refs[v] <= 1 \/ v \in first .. first + i - 1
        BY DEF Inv, Counted
      <4> QED BY <1>5, <4>1, <4>2
    <3> QED BY <3>1, <3>2
  <2>2. ASSUME NEW v \in first .. first + Len(updates) - 1 PROVE refs'[v] >= 1
    <3>1. v \in Updates
      BY <1>5, <2>2 DEF Inv, Window, Updates
    <3>2. refs[v] >= 1
      BY <1>6 DEF Inv, Counted
    <3> QED BY <1>10, <3>1, <3>2
  <2>3. ASSUME NEW up \in Known, Claims(up)'
        PROVE  /\ refs'[up.update_id] >= 1
               /\ up \in Slots(updates) => refs'[up.update_id] = 2
    <3>1. /\ Claims(up) /\ refs[up.update_id] >= 1
          /\ up \in Slots(updates) => refs[up.update_id] = 2
      BY <1>3, <1>6, <2>3 DEF Inv, Counted, Claims
    <3>2. up.text = up.update_id /\ up \in SlotType
      BY <1>5, <3>1 DEF Inv, Memory, Sound
    <3>3. up.update_id \in Updates
      BY <3>2, ConstantFacts, NullAssumption DEF SlotType, Updates
    <3>4. up.update_id # u
      <4>1. CASE up \in old
        BY <1>1, <1>5, <1>6, <4>1 DEF Inv, Memory
      <4>2. CASE up \in Slots(updates)
        BY <1>1, <1>5, <1>6, <3>3, <4>2 DEF Inv, Memory, Id, Updates
      <4> QED BY <4>1, <4>2 DEF Known
    <3> QED BY <1>10, <3>1, <3>3, <3>4
  <2>4. Claims(q)' => refs'[q.update_id] = 2
    <3>1. CASE Keeps(u, n, q)
      BY <1>10, <3>1 DEF Keeps
    <3>2. CASE Drops(u, n, q)
      BY <3>2 DEF Drops, Claims, ReadsText
    <3> QED BY <1>4, <3>1, <3>2
  <2>5. \A v \in Updates : refs'[v] <= 1 \/ (Parsing' /\ v \in first' .. first' + i' - 1)
    BY <1>3, <1>6, <2>1
  <2>6. \A v \in first' .. first' + Len(updates') - 1 : refs'[v] >= 1
    BY <1>3, <1>8, <2>2
  <2>7. \A up \in Slots(updates') : Claims(up)' => refs'[up.update_id] = 2
    BY <1>8, <2>3, <2>4 DEF Known
  <2>8. \A up \in Known' : Claims(up)' => refs'[up.update_id] >= 1
    BY <1>8, <2>3, <2>4
  <2> QED BY <2>5, <2>6, <2>7, <2>8 DEF Counted
<1> QED BY <1>11, <1>12, <1>15, <1>16 DEF Inv

LEMMA NextHolds == ASSUME Inv, [Next]_vars PROVE Inv'
<1>1. CASE UNCHANGED vars
  BY <1>1 DEF vars, parser, client, Inv, Typed, TypeOK, Window, Memory, Counted, Parsing,
              Seen, Known, Id, Claims, Clean, Sound
<1>2. CASE Next
  BY <1>2, AnswerHolds, ParseHolds, FailureHolds, EndHolds, HandHolds, RearmHolds,
     HandleHolds DEF Next, MainStep
<1> QED BY <1>1, <1>2

LEMMA AlwaysHolds == Spec => []Inv
<1>1. Inv /\ [Next]_vars => Inv'
  BY NextHolds
<1> QED BY <1>1, InitHolds, PTL DEF Spec

----------------------------------------------------------------------------
(* What a handler may rely on.                                               *)

\* The variables have their types, as the slots and the heap that the parser, the
\* main thread and the handlers share keep theirs through every error path.
THEOREM UpdatesTyped == Spec => []TypeOK
<1>1. Inv => TypeOK
  BY DEF Inv, Typed
<1> QED BY <1>1, AlwaysHolds, PTL

\* Every block of the heap is in a slot and every block of a slot is in the heap:
\* the error paths of tgj_get_message lose none and leave no pointer behind, however
\* many elements fail in the same slot, one after the other.
THEOREM NoBlockLost == Spec => []BlocksOwned
<1>1. Inv => BlocksOwned
  BY DEF Inv, Memory, Known, BlocksOwned
<1> QED BY <1>1, AlwaysHolds, PTL

\* A handler that reads a text finds its JSON object referenced, and the chat of
\* its slot in the heap, however long it has waited and whatever the parser has
\* put into the slots before: only an element that met a failed allocation of its
\* entities is excepted.
THEOREM TextsAlive == Spec => []HandlerReadsAlive
<1>1. ASSUME Inv PROVE HandlerReadsAlive
  <2>1. SUFFICES ASSUME NEW up \in Slots(tasks), Claims(up)
                 PROVE  refs[up.text] > 0 /\ up.chat \in heap
    BY DEF HandlerReadsAlive, Claims
  <2>2. up \in Known /\ up \in SlotType
    BY <1>1, StateFacts DEF Inv, Memory, Known
  <2>3. /\ up.text = up.update_id /\ up.chat = <<up.update_id, "chat">>
        /\ refs[up.update_id] >= 1
    BY <1>1, <2>1, <2>2 DEF Inv, Memory, Sound, Counted
  <2>4. up.update_id \in Updates
    BY <2>2, <2>3, ConstantFacts, NullAssumption DEF SlotType, Updates
  <2>5. up.chat \in BlocksOf(up)
    BY <2>3, <2>4, BlockFacts DEF BlocksOf, Fields
  <2>6. refs[up.update_id] \in 0 .. 2
    BY <1>1, <2>4 DEF Inv, Typed, TypeOK
  <2> QED BY <1>1, <2>2, <2>3, <2>5, <2>6 DEF Inv, Memory
<1> QED BY <1>1, AlwaysHolds, PTL

----------------------------------------------------------------------------
(* Every update that parses is handled once.                                 *)

\* The order of the slots: the ids rise, apart from the slots that are still to be
\* filled; a good element that has been seen has its slot, and none of them is to
\* be overwritten; the offset stands at the last id handed over.
Ordered ==
    /\ \A k, l \in 1 .. Len(updates) :
          k < l => Id(l) = 0 \/ (0 < Id(k) /\ Id(k) < Id(l))
    /\ \A u \in first .. first + Seen - 1 :
          Good(u) => \E k \in 1 .. Len(updates) : Id(k) = u
    /\ Parsing => \A k \in j + 1 .. Len(updates) : Id(k) = 0 \/ ~Good(Id(k))
    /\ Parsing => \A k \in 1 .. Len(updates) :
                     (k <= j => Id(k) # 0) /\ (k > j + 1 => Id(k) = 0)
    /\ pc = "hand" => max_update_id = first - 1 \/ \E k \in 1 .. i : Id(k) = max_update_id

\* The handlers that wait with the id u.
Waiting(s, u) == {n \in DOMAIN s : s[n].update_id = u}

LEMMA WaitingFacts ==
    ASSUME NEW s \in Seq(SlotType), NEW u
    PROVE  /\ Waiting(s, u) = {n \in 1 .. Len(s) : s[n].update_id = u}
           /\ IsFiniteSet(Waiting(s, u)) /\ Cardinality(Waiting(s, u)) \in Nat
<1>1. DOMAIN s = 1 .. Len(s) /\ Len(s) \in Nat
  BY SlotsIs
<1>2. IsFiniteSet(1 .. Len(s))
  BY <1>1, FS_Interval
<1>3. Waiting(s, u) \in SUBSET (1 .. Len(s))
  BY <1>1 DEF Waiting
<1>4. IsFiniteSet(Waiting(s, u))
  BY <1>2, <1>3, FS_Subset
<1> QED BY <1>1, <1>4, FS_CardinalityType DEF Waiting

LEMMA WaitingAppended ==
    ASSUME NEW s \in Seq(SlotType), NEW q \in SlotType, NEW u
    PROVE  Cardinality(Waiting(Append(s, q), u)) =
              Cardinality(Waiting(s, u)) + (IF q.update_id = u THEN 1 ELSE 0)
<1> DEFINE t == Append(s, q)
<1>1. /\ t \in Seq(SlotType) /\ Len(t) = Len(s) + 1 /\ t[Len(s) + 1] = q
      /\ \A k \in 1 .. Len(s) : t[k] = s[k]
  BY TaskAppended
<1>2. Len(s) \in Nat
  BY SlotsIs
<1> HIDE DEF t
<1>3. /\ Waiting(s, u) = {n \in 1 .. Len(s) : s[n].update_id = u}
      /\ Waiting(t, u) = {n \in 1 .. Len(t) : t[n].update_id = u}
      /\ IsFiniteSet(Waiting(s, u)) /\ Cardinality(Waiting(s, u)) \in Nat
  BY <1>1, WaitingFacts
<1>4. CASE q.update_id = u
  <2>1. Waiting(t, u) = Waiting(s, u) \cup {Len(s) + 1} /\ Len(s) + 1 \notin Waiting(s, u)
    BY <1>1, <1>2, <1>3, <1>4
  <2>2. Cardinality(Waiting(s, u) \cup {Len(s) + 1}) = Cardinality(Waiting(s, u)) + 1
    BY <1>3, <2>1, FS_AddElement
  <2> QED BY <1>4, <2>1, <2>2 DEF t
<1>5. CASE q.update_id # u
  <2>1. Waiting(t, u) = Waiting(s, u)
    BY <1>1, <1>2, <1>3, <1>5
  <2>2. Cardinality(Waiting(t, u)) = Cardinality(Waiting(s, u))
    BY <2>1, Zenon
  <2>3. Cardinality(Waiting(s, u)) \in Nat
    BY WaitingFacts
  <2> QED BY <1>5, <2>2, <2>3 DEF t
<1> QED BY <1>4, <1>5

LEMMA WaitingRemoved ==
    ASSUME NEW s \in Seq(SlotType), NEW n \in 1 .. Len(s), NEW u
    PROVE  Cardinality(Waiting(Without(s, n), u)) =
              Cardinality(Waiting(s, u)) - (IF s[n].update_id = u THEN 1 ELSE 0)
<1> DEFINE t == Without(s, n)
           f == [k \in Waiting(t, u) |-> IF k < n THEN k ELSE k + 1]
           rest == Waiting(s, u) \ {n}
<1>1. /\ t \in Seq(SlotType) /\ Len(t) = Len(s) - 1
      /\ \A k \in 1 .. Len(s) - 1 : t[k] = IF k < n THEN s[k] ELSE s[k + 1]
  BY TaskRemoved
<1>2. Len(s) \in Nat /\ n \in Nat
  BY SlotsIs
<1> HIDE DEF t
<1>3. /\ Waiting(s, u) = {k \in 1 .. Len(s) : s[k].update_id = u}
      /\ Waiting(t, u) = {k \in 1 .. Len(s) - 1 : t[k].update_id = u}
      /\ IsFiniteSet(Waiting(s, u)) /\ Cardinality(Waiting(s, u)) \in Nat
      /\ IsFiniteSet(Waiting(t, u))
  BY <1>1, WaitingFacts
<1>4. f \in Bijection(Waiting(t, u), rest)
  <2>1. ASSUME NEW k \in Waiting(t, u) PROVE f[k] \in rest
    BY <1>1, <1>2, <1>3
  <2>2. ASSUME NEW k \in Waiting(t, u), NEW l \in Waiting(t, u), f[k] = f[l] PROVE k = l
    BY <1>2, <1>3, <2>2
  <2>3. ASSUME NEW m \in rest PROVE \E k \in Waiting(t, u) : f[k] = m
    <3>1. CASE m < n
      <4>1. m \in Waiting(t, u) /\ f[m] = m
        BY <1>1, <1>2, <1>3, <3>1
      <4> QED BY <4>1
    <3>2. CASE m > n
      <4>1. m - 1 \in 1 .. Len(s) - 1 /\ ~(m - 1 < n) /\ (m - 1) + 1 = m
        BY <1>2, <1>3, <3>2
      <4>2. t[m - 1] = s[m] /\ s[m].update_id = u
        BY <1>1, <1>3, <4>1
      <4>3. m - 1 \in Waiting(t, u)
        BY <1>3, <4>1, <4>2
      <4> QED BY <4>1, <4>3
    <3> QED BY <1>2, <1>3, <3>1, <3>2
  <2> HIDE DEF rest
  <2>4. f \in [Waiting(t, u) -> rest]
    <3>1. f = [k \in Waiting(t, u) |-> f[k]]
      OBVIOUS
    <3> HIDE DEF f
    <3> QED BY <2>1, <3>1
  <2> HIDE DEF f
  <2>5. f \in Injection(Waiting(t, u), rest)
    BY <2>2, <2>4 DEF Injection, IsInjective
  <2>6. f \in Surjection(Waiting(t, u), rest)
    BY <2>3, <2>4 DEF Surjection
  <2> QED BY <2>5, <2>6 DEF Bijection
<1>5. Cardinality(rest) = Cardinality(Waiting(t, u))
  BY <1>3, <1>4, FS_Bijection DEF ExistsBijection
<1>6. Cardinality(rest) = IF n \in Waiting(s, u) THEN Cardinality(Waiting(s, u)) - 1
                          ELSE Cardinality(Waiting(s, u))
  BY <1>3, FS_RemoveElement
<1>7. n \in Waiting(s, u) <=> s[n].update_id = u
  BY <1>3
<1> QED BY <1>3, <1>5, <1>6, <1>7 DEF t

\* A parse writes the id of its element into the next slot, or no id at all; the
\* ids before are smaller, and there is none behind.
LEMMA OrderParsed == ASSUME Inv, Ordered, ParseElement PROVE Ordered'
<1>0. PICK u \in Updates, n \in 1 .. Len(updates), q \in SlotType :
         /\ u = first + i /\ n = j + 1
         /\ pc = "parse" /\ i < Len(updates) /\ i' = i + 1
         /\ lost \subseteq lost' /\ lost' \subseteq lost \cup {u}
         /\ failures' \in 0 .. MaxFailures
         /\ UNCHANGED <<shape, pc, first, max_update_id, tasks, old, served>>
         /\ Fills(u, n, q) /\ (Keeps(u, n, q) \/ Drops(u, n, q))
  BY ParseMoves
<1>1. /\ first \in 1 .. MaxUpdates /\ i \in 0 .. Len(updates) /\ MaxUpdates \in Nat
      /\ Len(updates) \in Nat /\ j \in 0 .. Len(updates)
      /\ DOMAIN updates = 1 .. Len(updates)
      /\ \A k \in 1 .. Len(updates) : Id(k) \in 0 .. MaxUpdates
  BY StateFacts, ConstantFacts DEF Inv
<1>2. Parsing /\ Parsing' /\ Seen = i /\ Seen' = i + 1 /\ pc' # "hand"
  BY <1>0 DEF Parsing, Seen
<1>3. /\ Len(updates') = Len(updates) /\ updates'[n] = q
      /\ \A k \in 1 .. Len(updates) : k # n => updates'[k] = updates[k]
  <2>1. Clean(updates[n])
    <3>1. n \in j + 1 .. Len(updates)
      BY <1>0, <1>1
    <3> QED BY <1>2, <3>1 DEF Inv, Memory
  <2> QED BY <1>0, <2>1, FillsArray
<1>4a. PICK id : id = [k \in 1 .. Len(updates) |-> updates[k].update_id]
  OBVIOUS
<1>4. /\ id \in [1 .. Len(updates) -> 0 .. MaxUpdates]
      /\ \A k \in 1 .. Len(updates) : id[k] = Id(k)
  BY <1>1, <1>4a DEF Id
<1>5. /\ \A k \in 1 .. Len(updates) : k # n => Id(k)' = id[k]
      /\ Id(n)' \in {u, id[n]} /\ Id(n)' = q.update_id
  BY <1>0, <1>3, <1>4 DEF Id, Keeps, Drops
<1>6. /\ \A k \in 1 .. Len(updates) : id[k] = 0 \/ id[k] \in first .. first + i - 1
      /\ \A k \in 1 .. Len(updates) : (k <= j => id[k] # 0) /\ (k > j + 1 => id[k] = 0)
      /\ \A k \in j + 1 .. Len(updates) : id[k] = 0 \/ ~Good(id[k])
      /\ \A k, l \in 1 .. Len(updates) :
            k < l => id[l] = 0 \/ (0 < id[k] /\ id[k] < id[l])
      /\ \A v \in first .. first + i - 1 :
            Good(v) => \E k \in 1 .. Len(updates) : id[k] = v
  <2>1. \A k \in 1 .. Len(updates) : id[k] = 0 \/ id[k] \in first .. first + i - 1
    BY <1>1, <1>2, <1>4 DEF Inv, Memory
  <2>2. ASSUME NEW k \in j + 1 .. Len(updates) PROVE id[k] = 0 \/ ~Good(id[k])
    <3>1. k \in 1 .. Len(updates)
      BY <1>1
    <3>2. Id(k) = 0 \/ ~Good(Id(k))
      BY <1>2 DEF Ordered
    <3> QED BY <1>4, <3>1, <3>2 DEF Good
  <2>3. ASSUME NEW k \in 1 .. Len(updates), NEW l \in 1 .. Len(updates), k < l
        PROVE  id[l] = 0 \/ (0 < id[k] /\ id[k] < id[l])
    BY <1>4, <2>3 DEF Ordered
  <2>4. ASSUME NEW v \in first .. first + i - 1, Good(v)
        PROVE  \E k \in 1 .. Len(updates) : id[k] = v
    <3>1. \E k \in 1 .. Len(updates) : Id(k) = v
      BY <1>2, <2>4 DEF Ordered
    <3> QED BY <1>4, <3>1
  <2>5. \A k \in 1 .. Len(updates) : (k <= j => id[k] # 0) /\ (k > j + 1 => id[k] = 0)
    BY <1>2, <1>4 DEF Ordered
  <2> QED BY <2>1, <2>2, <2>3, <2>4, <2>5
<1>7. \A v : Good(v)' => Good(v)
  BY <1>0 DEF Good
<1>8. ASSUME NEW k \in 1 .. Len(updates), NEW l \in 1 .. Len(updates), k < l
      PROVE  Id(l)' = 0 \/ (0 < Id(k)' /\ Id(k)' < Id(l)')
  <2>1. CASE l = n
    <3>1. k # n /\ k <= j /\ Id(k)' = id[k] /\ id[k] # 0
      BY <1>0, <1>1, <1>5, <1>6, <1>8, <2>1
    <3>2. id[k] \in first .. first + i - 1 /\ 0 < id[k] /\ id[k] < u
      <4>1. id[k] \in first .. first + i - 1
        BY <1>6, <3>1
      <4>2. u = first + i /\ first \in Nat \ {0} /\ i \in Nat
        BY <1>0, <1>1
      <4> QED BY <4>1, <4>2
    <3>3. Id(l)' \in {u, id[l]} /\ (id[l] = 0 \/ id[k] < id[l])
      BY <1>5, <1>6, <1>8, <2>1
    <3> QED BY <2>1, <3>1, <3>2, <3>3
  <2>2. CASE l # n /\ k = n
    <3>1. Id(l)' = id[l] /\ id[l] = 0
      BY <1>0, <1>1, <1>5, <1>6, <1>8, <2>2
    <3> QED BY <3>1
  <2>3. CASE l # n /\ k # n
    <3>1. Id(l)' = id[l] /\ Id(k)' = id[k]
      BY <1>5, <2>3
    <3> QED BY <1>6, <1>8, <3>1
  <2> QED BY <2>1, <2>2, <2>3
<1>9. ASSUME NEW v \in first .. first + (i + 1) - 1, Good(v)'
      PROVE  \E k \in 1 .. Len(updates) : Id(k)' = v
  <2>1. CASE v = u
    <3>1. Keeps(u, n, q)
      BY <1>0, <1>9, <2>1 DEF Drops
    <3> QED BY <1>5, <2>1, <3>1 DEF Keeps
  <2>2. CASE v # u
    <3>1. v \in first .. first + i - 1 /\ Good(v) /\ v # 0
      BY <1>0, <1>1, <1>7, <1>9, <2>2
    <3>2. PICK k \in 1 .. Len(updates) : id[k] = v
      BY <1>6, <3>1
    <3>3. k # n
      <4>1. n \in j + 1 .. Len(updates)
        BY <1>0, <1>1
      <4> QED BY <1>6, <3>1, <3>2, <4>1
    <3> QED BY <1>5, <3>2, <3>3
  <2> QED BY <2>1, <2>2
<1>10. ASSUME NEW k \in j' + 1 .. Len(updates) PROVE Id(k)' = 0 \/ ~Good(Id(k))'
  <2>1. PICK x : x = Id(k)'
    OBVIOUS
  <2>2. x = 0 \/ ~Good(x)'
    <3>1. j' = j \/ j' = n
      BY <1>0 DEF Keeps, Drops
    <3>2. k \in j + 1 .. Len(updates) /\ k \in 1 .. Len(updates)
      <4>1. CASE j' = j
        BY <1>1, <4>1
      <4>2. CASE j' = n
        BY <1>0, <1>1, <4>2
      <4> QED BY <3>1, <4>1, <4>2
    <3>3. CASE k = n
      <4>1. ~Keeps(u, n, q)
        BY <1>0, <1>1, <3>3 DEF Keeps
      <4>2. ~Good(u)'
        BY <1>0, <4>1 DEF Drops
      <4>3. x = u \/ x = id[n]
        BY <1>5, <2>1, <3>3
      <4>4. id[n] = 0 \/ ~Good(id[n])
        BY <1>6, <3>2, <3>3
      <4> QED BY <1>7, <4>2, <4>3, <4>4
    <3>4. CASE k # n
      <4>1. x = id[k] /\ k > j + 1
        BY <1>0, <1>1, <1>5, <2>1, <3>2, <3>4
      <4> QED BY <1>6, <3>2, <4>1
    <3> QED BY <3>3, <3>4
  <2> QED BY <2>1, <2>2 DEF Good
<1>11. ASSUME NEW k \in 1 .. Len(updates)
       PROVE  (k <= j' => Id(k)' # 0) /\ (k > j' + 1 => Id(k)' = 0)
  <2>1. CASE k = n
    <3>1. CASE Keeps(u, n, q)
      BY <1>0, <1>1, <1>5, <2>1, <3>1 DEF Keeps, Updates
    <3>2. CASE Drops(u, n, q)
      BY <1>0, <1>1, <2>1, <3>2 DEF Drops
    <3> QED BY <1>0, <3>1, <3>2
  <2>2. CASE k # n
    <3>1. Id(k)' = id[k]
      BY <1>5, <2>2
    <3>2. j' = j \/ j' = j + 1
      BY <1>0 DEF Keeps, Drops
    <3>3. (k <= j' => k <= j) /\ (k > j' + 1 => k > j + 1)
      BY <1>0, <1>1, <2>2, <3>2
    <3> QED BY <1>6, <3>1, <3>3
  <2> QED BY <2>1, <2>2
<1> QED BY <1>0, <1>2, <1>3, <1>8, <1>9, <1>10, <1>11 DEF Ordered

\* The slot handed over is one the offset has not passed, unless it has no id; and
\* the offset passes no update that is good but that one.
LEMMA HandPasses ==
    ASSUME Inv, Ordered, HandOver, NEW u \in Updates, Good(u)
    PROVE  (u <= max_update_id') <=> (u <= max_update_id \/ u = Id(i + 1))
<1>1. /\ first \in 1 .. MaxUpdates /\ i \in 0 .. Len(updates) /\ MaxUpdates \in Nat
      /\ Len(updates) \in Nat /\ DOMAIN updates = 1 .. Len(updates)
      /\ max_update_id \in 0 .. MaxUpdates /\ first - 1 <= max_update_id
      /\ \A k \in 1 .. Len(updates) : Id(k) \in 0 .. MaxUpdates
  BY StateFacts, ConstantFacts DEF Inv, Window
<1>2. PICK n : n = i + 1
  OBVIOUS
<1>3. pc = "hand" /\ i < Len(updates) /\ n \in 1 .. Len(updates)
  BY <1>1, <1>2 DEF HandOver
<1>4. PICK a : a = updates[n].update_id
  OBVIOUS
<1>5. a = Id(n) /\ a \in 0 .. MaxUpdates /\ a = Id(i + 1)
  BY <1>1, <1>2, <1>3, <1>4 DEF Id
<1>6. max_update_id' = IF a > max_update_id THEN a ELSE max_update_id
  BY <1>2, <1>4 DEF HandOver
<1>7. Seen = Len(updates) /\ (a = 0 \/ a \in first .. first + Len(updates) - 1)
  BY <1>1, <1>3, <1>5 DEF Inv, Memory, Seen, Parsing
<1>8. \A k \in 1 .. i : Id(k) <= max_update_id
  BY <1>3 DEF Inv, Memory
<1>9. a > max_update_id /\ max_update_id < u /\ u < a => FALSE
  <2>1. SUFFICES ASSUME a > max_update_id, max_update_id < u, u < a PROVE FALSE
    OBVIOUS
  <2>2. u \in Int
    BY DEF Updates
  <2>3. u \in first .. first + Seen - 1
    BY <1>1, <1>5, <1>7, <2>1, <2>2
  <2>4. PICK k \in 1 .. Len(updates) : Id(k) = u
    BY <2>3 DEF Ordered
  <2>5. CASE k <= i
    <3>1. k \in 1 .. i
      BY <1>1, <2>5
    <3> QED BY <1>1, <1>8, <2>1, <2>2, <2>4, <3>1
  <2>6. CASE k > i /\ k # n
    <3>1. n < k
      BY <1>1, <1>2, <2>6
    <3>2. Id(k) = 0 \/ (0 < Id(n) /\ Id(n) < Id(k))
      BY <1>3, <3>1 DEF Ordered
    <3> QED BY <1>1, <1>5, <2>1, <2>2, <2>4, <3>2
  <2>7. CASE k = n
    <3>1. updates[k].update_id = u
      BY <2>4 DEF Id
    <3>2. a = u
      BY <1>4, <2>7, <3>1
    <3> QED BY <2>1, <2>2, <3>2
  <2> QED BY <1>1, <2>5, <2>6, <2>7
<1>10. u \in Int
  BY DEF Updates
<1> QED BY <1>1, <1>5, <1>6, <1>9, <1>10

LEMMA HandIsNew ==
    ASSUME Inv, Ordered, HandOver, Id(i + 1) # 0
    PROVE  Id(i + 1) > max_update_id
<1>1. /\ first \in 1 .. MaxUpdates /\ i \in 0 .. Len(updates) /\ MaxUpdates \in Nat
      /\ Len(updates) \in Nat /\ DOMAIN updates = 1 .. Len(updates)
      /\ max_update_id \in 0 .. MaxUpdates
      /\ \A k \in 1 .. Len(updates) : Id(k) \in 0 .. MaxUpdates
  BY StateFacts, ConstantFacts DEF Inv
<1>2. PICK n : n = i + 1
  OBVIOUS
<1>3. pc = "hand" /\ n \in 1 .. Len(updates) /\ Id(n) = Id(i + 1)
  BY <1>1, <1>2 DEF HandOver, Id
<1>4. Id(n) \in first .. first + Seen - 1 /\ Id(n) # 0
  BY <1>1, <1>3 DEF Inv, Memory
<1>5. CASE max_update_id = first - 1
  BY <1>1, <1>3, <1>4, <1>5
<1>6. CASE max_update_id # first - 1
  <2>1. PICK k \in 1 .. i : Id(k) = max_update_id
    BY <1>3, <1>6 DEF Ordered
  <2>2. k \in 1 .. Len(updates) /\ k < n
    BY <1>1, <1>2, <2>1
  <2>3. Id(n) = 0 \/ (0 < Id(k) /\ Id(k) < Id(n))
    BY <1>3, <2>2 DEF Ordered
  <2> QED BY <1>1, <1>3, <1>4, <2>1, <2>2, <2>3
<1> QED BY <1>5, <1>6

LEMMA OrderHolds == ASSUME Inv, Ordered, [Next]_vars PROVE Ordered'
<1>0. /\ first \in 1 .. MaxUpdates /\ i \in 0 .. Len(updates) /\ MaxUpdates \in Nat
      /\ Len(updates) \in Nat /\ DOMAIN updates = 1 .. Len(updates)
      /\ max_update_id \in 0 .. MaxUpdates
  BY StateFacts, ConstantFacts DEF Inv
<1>1. CASE UNCHANGED vars \/ CallFails \/ Handle \/ ParseNull
  <2>1. /\ UNCHANGED <<shape, first, updates, i, j, max_update_id, lost>>
        /\ pc' = pc \/ (pc = "parse" /\ pc' = "undefined")
    BY <1>1 DEF vars, parser, client, CallFails, Handle, ParseNull
  <2>2. Parsing' = Parsing /\ Seen' = Seen /\ (pc' = "hand" => pc = "hand")
    BY <2>1 DEF Parsing, Seen
  <2> QED BY <2>1, <2>2 DEF Ordered, Id, Good
<1>2. CASE Answer
  <2>1. PICK len \in 1 .. BatchMax : updates' = [k \in 1 .. len |-> Zeroed]
    BY <1>2 DEF Answer
  <2>2. Len(updates') = len /\ len \in Nat /\ \A k \in 1 .. len : updates'[k] = Zeroed
    BY <2>1, ConstantFacts
  <2>3. \A k \in 1 .. len : Id(k)' = 0
    BY <2>2, ZeroedIsClean DEF Id
  <2>4. /\ pc' = "parse" /\ Parsing' /\ Seen' = 0 /\ j' = 0 /\ first' = max_update_id + 1
    BY <1>2 DEF Answer, Parsing, Seen
  <2>5. first' .. first' + Seen' - 1 = {}
    BY <1>0, <2>4
  <2>6. \A k \in j' + 1 .. Len(updates') : Id(k)' = 0
    BY <2>2, <2>3, <2>4
  <2>7. \A k \in 1 .. Len(updates') : ~(k <= j')
    BY <2>2, <2>4
  <2> QED BY <2>2, <2>3, <2>4, <2>5, <2>6, <2>7 DEF Ordered
<1>3. CASE ParseEnds
  <2>1. /\ pc = "parse" /\ pc' = "hand" /\ i = Len(updates)
        /\ UNCHANGED <<shape, first, updates, max_update_id, lost>>
    BY <1>3 DEF ParseEnds, Result, client
  <2>2. ~Parsing' /\ Seen' = Seen /\ max_update_id = first - 1
    BY <2>1 DEF Parsing, Seen, Inv, Window
  <2> QED BY <2>1, <2>2 DEF Ordered, Id, Good
<1>4. CASE HandOver
  <2>1. /\ pc = "hand" /\ pc' = "hand" /\ i' = i + 1
        /\ UNCHANGED <<shape, first, updates, lost>>
    BY <1>4 DEF HandOver
  <2>2. ~Parsing' /\ Seen' = Seen
    BY <2>1 DEF Parsing, Seen
  <2>3. max_update_id' = first - 1 \/ \E k \in 1 .. i + 1 : Id(k) = max_update_id'
    <3>1. max_update_id' = max_update_id \/ max_update_id' = Id(i + 1)
      BY <1>4, HandHolds
    <3>2. CASE max_update_id' = max_update_id
      <4>1. max_update_id = first - 1 \/ \E k \in 1 .. i : Id(k) = max_update_id
        BY <2>1 DEF Ordered
      <4>2. 1 .. i \subseteq 1 .. i + 1
        BY <1>0
      <4> QED BY <3>2, <4>1, <4>2
    <3>3. CASE max_update_id' = Id(i + 1)
      <4>1. i + 1 \in 1 .. i + 1
        BY <1>0
      <4> QED BY <3>3, <4>1 DEF Id
    <3> QED BY <3>1, <3>2, <3>3
  <2> QED BY <2>1, <2>2, <2>3 DEF Ordered, Id, Good
<1>5. CASE Rearm
  <2>1. updates' = <<>> /\ Len(<<>>) = 0 /\ pc' = "poll" /\ first' = first
    BY <1>5 DEF Rearm
  <2>2. ~Parsing' /\ Seen' = 0 /\ Len(updates') = 0
    BY <2>1 DEF Parsing, Seen
  <2>3. first' .. first' + Seen' - 1 = {} /\ 1 .. Len(updates') = {}
    BY <1>0, <2>1, <2>2
  <2> QED BY <2>1, <2>2, <2>3 DEF Ordered
<1> QED BY <1>1, <1>2, <1>3, <1>4, <1>5, OrderParsed DEF Next, MainStep

\* What is handed over and what has been handled add up to what the offset passed.
LEMMA OnceHolds ==
    ASSUME Inv, Ordered, HandledOnce, [Next]_vars
    PROVE  HandledOnce'
<1> DEFINE Count(u) == Cardinality(Waiting(tasks, u))
<1>0. /\ tasks \in Seq(SlotType) /\ served \in [Updates -> 0 .. 2]
      /\ max_update_id \in 0 .. MaxUpdates /\ MaxUpdates \in Nat
      /\ \A u \in Updates : u \in Int
  BY ConstantFacts DEF Inv, Typed, TypeOK, Updates
<1>1. \A u \in Updates : Good(u) =>
         Cardinality(Waiting(tasks, u)) + served[u] = IF u <= max_update_id THEN 1 ELSE 0
  BY DEF HandledOnce, Good, Waiting
<1>2. SUFFICES ASSUME NEW u \in Updates, Good(u)'
               PROVE  Cardinality(Waiting(tasks', u)) + served'[u] =
                         IF u <= max_update_id' THEN 1 ELSE 0
  BY DEF HandledOnce, Good, Waiting
<1>3. Good(u)
  <2>1. shape' = shape /\ lost \subseteq lost'
    BY ParseMoves
    DEF Next, MainStep, vars, parser, client, Answer, ParseNull, ParseEnds, HandOver, Rearm,
        CallFails, Handle
  <2> QED BY <1>2, <2>1 DEF Good
<1>4. PICK c : c = Cardinality(Waiting(tasks, u))
  OBVIOUS
<1>5. c \in Nat /\ served[u] \in 0 .. 2
  BY <1>0, <1>4, WaitingFacts
<1>6. c + served[u] = IF u <= max_update_id THEN 1 ELSE 0
  BY <1>1, <1>3, <1>4
<1>7. CASE HandOver
  <2>1. PICK n : n = i + 1
    OBVIOUS
  <2>2. n \in 1 .. Len(updates) /\ tasks' = Append(tasks, updates[n]) /\ served' = served
    BY <1>7, <2>1, StateFacts DEF HandOver, Inv
  <2>3. updates[n] \in SlotType /\ Id(n) \in 0 .. MaxUpdates /\ Id(n) = Id(i + 1)
    BY <2>1, <2>2, StateFacts DEF Inv, Id
  <2>4. Cardinality(Waiting(tasks', u)) = c + (IF Id(n) = u THEN 1 ELSE 0)
    BY <1>0, <1>4, <2>2, <2>3, WaitingAppended DEF Id
  <2>5. (u <= max_update_id') <=> (u <= max_update_id \/ u = Id(n))
    BY <1>3, <1>7, <2>3, HandPasses
  <2>6. Id(n) = u => Id(n) > max_update_id
    <3>1. u # 0
      BY DEF Updates
    <3> QED BY <1>7, <2>3, <3>1, HandIsNew
  <2>7. CASE Id(n) = u
    <3>1. ~(u <= max_update_id) /\ u <= max_update_id'
      BY <1>0, <2>5, <2>6, <2>7
    <3>2. Cardinality(Waiting(tasks', u)) = c + 1 /\ c + served[u] = 0
      BY <1>6, <2>4, <2>7, <3>1
    <3> QED BY <1>5, <2>2, <3>1, <3>2
  <2>8. CASE Id(n) # u
    <3>1. Cardinality(Waiting(tasks', u)) = c
      BY <1>5, <2>4, <2>8
    <3> QED BY <1>6, <2>2, <2>5, <2>8, <3>1
  <2> QED BY <2>7, <2>8
<1>8. CASE Handle
  <2>1. PICK n \in 1 .. Threads :
          /\ n \in DOMAIN tasks /\ tasks' = Without(tasks, n)
          /\ served' = IF Whole(tasks[n]) /\ served[tasks[n].update_id] < 2
                       THEN [served EXCEPT ![tasks[n].update_id] = @ + 1]
                       ELSE served
    BY <1>8 DEF Handle, Without
  <2>2. max_update_id' = max_update_id
    BY <1>8 DEF Handle
  <2>3. n \in 1 .. Len(tasks)
    BY <1>0, <2>1, SlotsIs
  <2>4. Cardinality(Waiting(tasks', u)) = c - (IF tasks[n].update_id = u THEN 1 ELSE 0)
    BY <1>0, <1>4, <2>1, <2>3, WaitingRemoved
  <2>5. PICK v : v = tasks[n].update_id
    OBVIOUS
  <2>6. Whole(tasks[n]) <=> v \in Updates /\ Good(v)
    BY <2>5 DEF Whole, Good
  <2>7. CASE v = u
    <3>1. n \in Waiting(tasks, u)
      BY <2>1, <2>5, <2>7 DEF Waiting
    <3>2. c # 0
      BY <1>0, <1>4, <3>1, WaitingFacts, FS_EmptySet
    <3>3. c = 1 /\ served[u] = 0
      BY <1>5, <1>6, <3>2
    <3>4. served'[u] = 1
      BY <1>0, <1>3, <2>1, <2>5, <2>6, <2>7, <3>3
    <3>5. Cardinality(Waiting(tasks', u)) = 0
      BY <2>4, <2>5, <2>7, <3>3
    <3> QED BY <1>6, <2>2, <3>3, <3>4, <3>5
  <2>8. CASE v # u
    <3>1. served'[u] = served[u]
      BY <1>0, <2>1, <2>5, <2>8
    <3>2. Cardinality(Waiting(tasks', u)) = c
      BY <1>5, <2>4, <2>5, <2>8
    <3> QED BY <1>6, <2>2, <3>1, <3>2
  <2> QED BY <2>7, <2>8
<1>9. CASE UNCHANGED <<tasks, served, max_update_id>>
  BY <1>4, <1>6, <1>9
<1> QED BY <1>7, <1>8, <1>9, ParseMoves
  DEF Next, MainStep, vars, parser, client, Answer, ParseNull, ParseEnds, Rearm, CallFails

\* An update that parses, and met no failed allocation, is handed to exactly one
\* handler once the offset has passed it, and to none before: the order of the slots
\* is why no slot is overwritten that was filled, and no id passed that was not
\* handed over.
THEOREM UpdatesOnce == Spec => []HandledOnce
<1>1. Init => Ordered /\ HandledOnce
  <2>1. SUFFICES ASSUME Init PROVE Ordered /\ HandledOnce
    OBVIOUS
  <2>2. /\ updates = <<>> /\ tasks = <<>> /\ Len(<<>>) = 0 /\ DOMAIN <<>> = {}
        /\ first = 1 /\ ~Parsing /\ Seen = 0 /\ pc = "poll" /\ max_update_id = 0
        /\ served = [u \in Updates |-> 0]
    BY <2>1, EmptySeq DEF Init, Parsing, Seen
  <2>3. 1 .. Len(updates) = {} /\ first .. first + Seen - 1 = {}
    BY <2>2
  <2>4. Ordered
    BY <2>2, <2>3 DEF Ordered
  <2>5. ASSUME NEW u \in Updates
        PROVE  /\ Cardinality({n \in DOMAIN tasks : tasks[n].update_id = u}) = 0
               /\ served[u] = 0 /\ ~(u <= max_update_id)
    <3>1. {n \in DOMAIN tasks : tasks[n].update_id = u} = {}
      BY <2>2
    <3> QED BY <2>2, <3>1, FS_EmptySet DEF Updates
  <2> QED BY <2>4, <2>5 DEF HandledOnce
<1>2. Inv /\ Ordered /\ HandledOnce /\ [Next]_vars => (Ordered /\ HandledOnce)'
  BY OrderHolds, OnceHolds
<1> QED BY <1>1, <1>2, AlwaysHolds, PTL DEF Spec
=============================================================================
