------------------------------ MODULE UpdateRef ------------------------------
(***************************************************************************)
(* The references to one update of lib/tgapi.c: tgapi_parse_update_len     *)
(* makes it with one, tgapi_inc_ref_update takes another for a holder, and *)
(* every holder, the one that parsed it included, ends with                *)
(* tgapi_free_update.  The count is that of the JSON object, and           *)
(* json_object_put (json-c) returns 1 when it has freed the object.        *)
(***************************************************************************)
EXTENDS TgUpdate

CONSTANTS
    Holders,    \* those who may hold the update,
    Parser      \* and the one of them that parses it

VARIABLES
    up,         \* the structure; before the parse, what its memory held
    json,       \* its field json: "object" or NULL, "unset" before the parse
    count,      \* references to the JSON object, freed at 0
    heap,       \* blocks allocated and not freed
    holding     \* who has the update and has not called tgapi_free_update

vars == <<up, json, count, heap, holding>>

\* The caller does not zero the structure.
Garbage == [Zeroed EXCEPT !.from = <<0, "from">>, !.chat = <<0, "chat">>,
                          !.entities = <<0, "entities">>]

Init ==
    /\ up = Garbage /\ json = "unset"
    /\ count = 0
    /\ heap = {}
    /\ holding = {}

\* A parse that fails puts the object and zeroes the structure.
ParseUpdate ==
    /\ json = "unset"
    /\ \E shape \in Shapes, fault \in Faults :
          LET s == tgj_get_update([up |-> up, heap |-> heap], 1, shape, fault)
          IN  /\ heap' = s.heap
              /\ IF Succeeds(shape, fault)
                 THEN up' = s.up /\ json' = "object" /\ count' = 1 /\ holding' = {Parser}
                 ELSE up' = Zeroed /\ json' = NULL /\ count' = 0 /\ holding' = {}

IncRef(h) ==
    /\ holding # {} /\ h \notin holding
    /\ count' = IF json = NULL THEN count ELSE count + 1
    /\ holding' = holding \cup {h}
    /\ UNCHANGED <<up, json, heap>>

\* tgapi_free_message.
MessageBlocks ==
    IF up.type # "message" THEN {}
    ELSE {up.from, up.chat} \cup (IF up.mtype = "text" THEN {up.entities} ELSE {})

\* tgapi_free_update: it returns early when the object was freed.
FreeUpdate(h) ==
    /\ h \in holding
    /\ holding' = holding \ {h}
    /\ IF json = NULL THEN UNCHANGED <<json, count, heap>>
       ELSE /\ count' = count - 1
            /\ IF count' = 0 THEN UNCHANGED <<json, heap>>
               ELSE json' = NULL /\ heap' = heap \ MessageBlocks
    /\ UNCHANGED up

Next == ParseUpdate \/ \E h \in Holders : IncRef(h) \/ FreeUpdate(h)

Spec == Init /\ [][Next]_vars

----------------------------------------------------------------------------
\* include/gw/lib/tgapi.h, "We need to hold the JSON object to release the
\* resource, as it holds the reference to `const char *`": what an update owns
\* stays while someone holds it, and is gone when nobody does.
ReleasedAtLast ==
    json # "unset" =>
        IF holding = {} THEN heap = {} /\ count = 0
        ELSE MessageBlocks \cap ({1} \X DOMAIN up) \subseteq heap /\ count > 0
=============================================================================
