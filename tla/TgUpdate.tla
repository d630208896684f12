------------------------------ MODULE TgUpdate ------------------------------
(***************************************************************************)
(* How lib/tgapi.c turns one element of a getUpdates answer into a struct  *)
(* tg_update: the fields it fills before it finds the element wanting, and *)
(* the blocks it allocates and frees on the way.                           *)
(*                                                                         *)
(* An element is known by the id u of its update and by its shape, which   *)
(* says how far the parse gets.  The user, the chat and the entities are   *)
(* blocks <<u, field>> of the heap; a string is a pointer into the JSON    *)
(* object of the element, and is known by u.  A pair [up, heap] is the     *)
(* structure being filled together with the heap.                          *)
(***************************************************************************)
EXTENDS Integers

CONSTANT NULL

\* It is neither an id nor a block.
ASSUME NullAssumption == NULL \notin Int /\ NULL \notin Int \X {"from", "chat", "entities"}

\* Elements with a message in them, and those whose message parses.
GoodMessages == {"text", "text_entities", "other_message"}
Messages     == {"bad_message", "bad_from", "bad_chat"} \cup GoodMessages

\* "no_id" has no update_id and "other_update" no message; "bad_message" lacks
\* message_id, date or from, and "bad_from" and "bad_chat" have a user or a chat
\* without its mandatory fields.
Shapes   == {"no_id", "other_update"} \cup Messages
Parsable == {"other_update"} \cup GoodMessages

\* Which allocation of the parse returns NULL.
Faults == {"none", "user", "chat", "entities"}

Zeroed ==
    [update_id |-> 0, type |-> "unknown", mtype |-> "none", from |-> NULL,
     chat |-> NULL, text |-> NULL, entities |-> NULL]

\* Whether tgj_get_update returns 0.
Succeeds(shape, fault) ==
    \/ shape = "other_update"
    \/ /\ shape \in GoodMessages
       /\ fault \notin {"user", "chat"}
       /\ ~(shape = "text_entities" /\ fault = "entities")

\* A block is allocated and stored in a field.
Alloc(s, u, field) ==
    [s EXCEPT !.up[field] = <<u, field>>, !.heap = @ \cup {<<u, field>>}]

\* Mutant: the pointer is cleared, the block is kept.
err_free_leaks(s, field) == [s EXCEPT !.up[field] = NULL]

\* The labels err_free_chat and err_free_from of tgj_get_message.
err_free(s, field) == [s EXCEPT !.up[field] = NULL, !.heap = @ \ {s.up[field]}]

\* tgj_arrange_message_variant: an element that has a text is a text message,
\* and the other variants only set the type.
tgj_arrange_message_variant(s, u, shape, fault) ==
    LET text == [s EXCEPT !.up.mtype = "text", !.up.text = u]
    IN  IF shape = "other_message" THEN [s EXCEPT !.up.mtype = "other"]
        ELSE IF shape = "text_entities" /\ fault # "entities"
             THEN Alloc(text, u, "entities")
             ELSE text

tgj_get_message(s, u, shape, fault) ==
    LET from == Alloc(s, u, "from")
        chat == Alloc(from, u, "chat")
        full == tgj_arrange_message_variant(chat, u, shape, fault)
    IN  IF shape \in {"bad_message", "bad_from"} \/ fault = "user" THEN s
        ELSE IF shape = "bad_chat" \/ fault = "chat" THEN err_free(from, "from")
        ELSE IF ~Succeeds(shape, fault) THEN err_free(err_free(full, "chat"), "from")
        ELSE full

tgj_get_update(s, u, shape, fault) ==
    LET known == [s EXCEPT !.up.update_id = u]
    IN  IF shape = "no_id" THEN s
        ELSE IF shape = "other_update" THEN [known EXCEPT !.up.type = "unknown"]
        ELSE tgj_get_message([known EXCEPT !.up.type = "message"], u, shape, fault)

\* The blocks a structure points to.
BlocksOf(up) == {up.from, up.chat, up.entities} \ {NULL}
=============================================================================
