--------------------------- MODULE Conversations ---------------------------
(***************************************************************************)
(* A durable conversation (local-services conversations.rs), the clients   *)
(* that edit and list it, and the Responses that continue it: each builds  *)
(* its prompt from one snapshot, generates for a long time, and appends    *)
(* its input and output if the conversation has not moved on (Conversing   *)
(* in serve/responses/parse.rs, finish and save in responses/state.rs).    *)
(*                                                                         *)
(* An item is [id, seq]: the id a client or the generator gave it and its  *)
(* AUTOINCREMENT row.  Output items carry fresh ids, named by the reply.   *)
(***************************************************************************)
EXTENDS Naturals, Sequences, FiniteSets, SequencesExt

CONSTANTS
  Replies,          \* Responses that may continue the conversation
  ClientItemIds,    \* item ids clients choose
  PageLimit,        \* items per page
  MaxSeq,           \* bound: items ever inserted
  MaxConvFaults,    \* bound: records that cannot be written
  MaxConvCrashes    \* bound: crashes

Outputs == {<<"out", r>> : r \in Replies}

(* The generator's ids are random: no client guesses one, and a client     *)
(* that adds items here does so under ids of its own.                      *)
ASSUME ConversationBoundsAssumption ==
  /\ PageLimit \in Nat \ {0}
  /\ {MaxSeq, MaxConvFaults, MaxConvCrashes} \subseteq Nat
  /\ ClientItemIds \cap Outputs = {}

VARIABLES
  conv,       \* the row: [live, version]
  convItems,  \* conversation_items, by seq
  lastSeq,    \* the AUTOINCREMENT counter
  applied,    \* conversation_appends: the replies whose append is recorded
  reply,      \* each reply: [at, mode, version, base, input]
  replyRecord,     \* its record in the response store
  page,       \* a client paging through the items
  convFaults, convCrashes

convRows   == <<conv, convItems, lastSeq, applied>>
convBounds == <<convFaults, convCrashes>>
convVars   == <<convRows, reply, replyRecord, page, convBounds>>

ItemIds(s)  == {s[n].id : n \in DOMAIN s}
NoReply     == [at |-> "none", mode |-> "none", version |-> 0, base |-> <<>>,
                input |-> <<>>]
NoPage      == [at |-> "none", order |-> "asc", seen |-> <<>>, stable |-> {},
                moved |-> FALSE]

ConvInit ==
  /\ conv = [live |-> TRUE, version |-> 0]
  /\ convItems = <<>> /\ lastSeq = 0 /\ applied = {}
  /\ reply = [r \in Replies |-> NoReply]
  /\ replyRecord = [r \in Replies |-> "none"]
  /\ page = NoPage
  /\ convFaults = 0 /\ convCrashes = 0

(***************************************************************************)
(* The store.  insert_items refuses an id the conversation holds and bumps *)
(* the version once; nothing happens to a deleted conversation (live).     *)
(***************************************************************************)
CanInsert(ids) == /\ lastSeq + Len(ids) <= MaxSeq
                  /\ ToSet(ids) \cap ItemIds(convItems) = {}

InsertItems(ids) ==
  /\ convItems' = convItems \o [n \in DOMAIN ids |->
                                  [id |-> ids[n], seq |-> lastSeq + n]]
  /\ lastSeq' = lastSeq + Len(ids)
  /\ conv' = [conv EXCEPT !.version = @ + 1]

(* The cursor of a client that pages is an id: it moves with a re-added    *)
(* item, and the page's claim (PagesConsistent) ends with it.              *)
PageSeesInsert(ids) ==
  page' = [page EXCEPT !.moved = @ \/ \E n \in DOMAIN page.seen :
                                        page.seen[n].id \in ToSet(ids)]

AddItems ==
  /\ conv.live
  /\ \E i \in ClientItemIds : /\ CanInsert(<<i>>) /\ InsertItems(<<i>>)
                              /\ PageSeesInsert(<<i>>)
  /\ UNCHANGED <<applied, reply, replyRecord, convBounds>>

(* Mutant of DeleteItem: the version stays. *)
DeleteItemUnversioned ==
  /\ conv.live
  /\ \E n \in DOMAIN convItems :
       /\ convItems' = RemoveAt(convItems, n)
       /\ page' = [page EXCEPT !.stable = @ \ {convItems[n]}]
  /\ UNCHANGED <<conv, lastSeq, applied, reply, replyRecord, convBounds>>

DeleteItem ==
  /\ conv.live
  /\ \E n \in DOMAIN convItems :
       /\ convItems' = RemoveAt(convItems, n)
       /\ page' = [page EXCEPT !.stable = @ \ {convItems[n]}]
  /\ conv' = [conv EXCEPT !.version = @ + 1]
  /\ UNCHANGED <<lastSeq, applied, reply, replyRecord, convBounds>>

DeleteConversation ==
  /\ conv.live
  /\ conv' = [conv EXCEPT !.live = FALSE]
  /\ UNCHANGED <<convItems, lastSeq, applied, reply, replyRecord, page, convBounds>>

(* append_items: a request id already applied changes nothing; a new one   *)
(* is applied only at the version it expects.  Input, then output.         *)
Appended(r)  == reply[r].input \o <<<<"out", r>>>>
CanAppend(r) == /\ conv.live
                /\ r \in applied \/ /\ conv.version = reply[r].version
                                    /\ CanInsert(Appended(r))

AppendItems(r) ==
  /\ CanAppend(r)
  /\ IF r \in applied
     THEN UNCHANGED <<convRows, page>>
     ELSE /\ InsertItems(Appended(r)) /\ applied' = applied \cup {r}
          /\ PageSeesInsert(Appended(r))

(***************************************************************************)
(* Replies.  prepare_responses_conversing reads version and items in one   *)
(* snapshot; a background reply is stored as pending before it generates.  *)
(***************************************************************************)
PrepareReply(r) ==
  /\ reply[r].at = "none" /\ conv.live
  /\ \E mode \in {"foreground", "unstored", "background"},
       input \in {<<>>} \cup {<<i>> : i \in ClientItemIds} :
       /\ reply' = [reply EXCEPT ![r] =
                      [at |-> "generate", mode |-> mode, version |-> conv.version,
                       base |-> convItems, input |-> input]]
       /\ replyRecord' = [replyRecord EXCEPT ![r] =
                       IF mode = "background" THEN "pending" ELSE "none"]
  /\ UNCHANGED <<convRows, page, convBounds>>

ReplyTo(r, at) == reply' = [reply EXCEPT ![r].at = at]
Over(r, at)    == reply' = [reply EXCEPT ![r] = [NoReply EXCEPT !.at = at,
                                                 !.mode = reply[r].mode]]

(* The append goes first: when it conflicts nothing has been written, and  *)
(* the reply fails.                                                        *)
AppendReply(r) ==
  /\ reply[r].at = "generate" /\ AppendItems(r)
  /\ ReplyTo(r, "appended")
  /\ UNCHANGED <<replyRecord, convBounds>>

(* Mutant of Conflict: the refused append is overlooked. *)
ConflictOverlooked(r) ==
  /\ reply[r].at = "generate" /\ ~ CanAppend(r)
  /\ ReplyTo(r, "appended")
  /\ UNCHANGED <<convRows, replyRecord, page, convBounds>>

Conflict(r) ==
  /\ reply[r].at = "generate" /\ ~ CanAppend(r)
  /\ Over(r, "not kept")
  /\ UNCHANGED <<convRows, replyRecord, page, convBounds>>

(* The generation itself failed, or was cancelled: nothing is appended.    *)
GenerationFails(r) ==
  /\ reply[r].at = "generate"
  /\ Over(r, "not kept")
  /\ UNCHANGED <<convRows, replyRecord, page, convBounds>>

(* save_with, when the reply is to be stored; a record that cannot be      *)
(* written fails the reply, although its items are in the conversation.    *)
SaveReply(r) ==
  /\ reply[r].at = "appended"
  /\ \/ /\ replyRecord' = [replyRecord EXCEPT ![r] = IF reply[r].mode = "unstored" THEN @
                                           ELSE "completed"]
        /\ Over(r, "completed") /\ UNCHANGED convFaults
     \/ /\ reply[r].mode # "unstored"
        /\ convFaults < MaxConvFaults /\ convFaults' = convFaults + 1
        /\ Over(r, "not kept") /\ UNCHANGED replyRecord
  /\ UNCHANGED <<convRows, page, convCrashes>>

(* A caller of the store that lost its answer appends again.               *)
RetryAppend(r) ==
  /\ reply[r].at = "appended" /\ AppendItems(r)
  /\ UNCHANGED <<reply, replyRecord, convBounds>>

(* The failed end: settle stores it, or removes the record when that fails *)
(* too; a foreground reply is not stored at all.                           *)
FailReply(r) ==
  /\ reply[r].at = "not kept" /\ Over(r, "failed")
  /\ IF reply[r].mode # "background" THEN UNCHANGED <<replyRecord, convFaults>>
     ELSE \/ replyRecord' = [replyRecord EXCEPT ![r] = "failed"] /\ UNCHANGED convFaults
          \/ /\ convFaults < MaxConvFaults /\ convFaults' = convFaults + 1
             /\ replyRecord' = [replyRecord EXCEPT ![r] = "none"]
  /\ UNCHANGED <<convRows, page, convCrashes>>

(* The process dies.  A pending record that continues a conversation is    *)
(* not regenerated: the next server settles it failed (prepare_resumed).   *)
ConvCrash ==
  /\ convCrashes < MaxConvCrashes /\ convCrashes' = convCrashes + 1
  /\ reply' = [r \in Replies |->
                 IF reply[r].at \in {"generate", "appended", "not kept"}
                 THEN [NoReply EXCEPT !.at = "lost"] ELSE reply[r]]
  /\ UNCHANGED <<convRows, replyRecord, page, convFaults>>

SettleLost(r) ==
  /\ reply[r].at = "lost" /\ replyRecord[r] = "pending"
  /\ replyRecord' = [replyRecord EXCEPT ![r] = "failed"]
  /\ UNCHANGED <<convRows, reply, page, convBounds>>

(***************************************************************************)
(* list_items: pages in either order, each one snapshot, found by the id   *)
(* of the last item of the page before.  convItems is in the order of seq, *)
(* so what is beyond the bound is what is beyond its place.                *)
(***************************************************************************)
Beyond(order, place) ==
  IF order = "asc" THEN SubSeq(convItems, place + 1, Len(convItems))
                   ELSE Reverse(SubSeq(convItems, 1, place - 1))

ListItems(order, place, seen) ==
  LET rest == Beyond(order, place)
      n    == IF Len(rest) > PageLimit THEN PageLimit ELSE Len(rest)
  IN page' = [page EXCEPT !.order = order, !.seen = seen \o SubSeq(rest, 1, n),
                          !.at = IF Len(rest) > PageLimit THEN "more" ELSE "done",
                          !.stable = IF page.at = "none" THEN ToSet(convItems) ELSE @]

FirstPage ==
  /\ conv.live /\ page.at = "none"
  /\ \E order \in {"asc", "desc"} :
       ListItems(order, IF order = "asc" THEN 0 ELSE Len(convItems) + 1, <<>>)
  /\ UNCHANGED <<convRows, reply, replyRecord, convBounds>>

(* An item no longer there is no cursor: the request is refused.           *)
NextPage ==
  /\ conv.live /\ page.at = "more"
  /\ \E n \in DOMAIN convItems :
       /\ convItems[n].id = Last(page.seen).id
       /\ ListItems(page.order, n, page.seen)
  /\ UNCHANGED <<convRows, reply, replyRecord, convBounds>>

ConvNext ==
  \/ AddItems \/ DeleteItem \/ DeleteConversation \/ ConvCrash
  \/ FirstPage \/ NextPage
  \/ \E r \in Replies :
       \/ PrepareReply(r) \/ AppendReply(r) \/ Conflict(r) \/ GenerationFails(r)
       \/ SaveReply(r) \/ RetryAppend(r) \/ FailReply(r) \/ SettleLost(r)

ConvSpec == ConvInit /\ [][ConvNext]_convVars

(***************************************************************************)
(* Properties.                                                             *)
(***************************************************************************)
(* What a client saw complete can be continued: a reply that completed, or *)
(* whose record says so, has its append recorded, whatever failed or       *)
(* crashed; a stored one has its record too.                               *)
CompletedIsKept ==
  \A r \in Replies :
    /\ replyRecord[r] = "completed" => r \in applied
    /\ reply[r].at = "completed" =>
         /\ r \in applied
         /\ reply[r].mode # "unstored" => replyRecord[r] = "completed"

(* A client that pages sees no item twice, and by its last page it has     *)
(* seen every item that was there all along, unless an item it had seen    *)
(* was deleted and added again under the same id.                          *)
PagesConsistent ==
  ~page.moved =>
    /\ \A m, n \in DOMAIN page.seen : m # n => page.seen[m].seq # page.seen[n].seq
    /\ page.at = "done" => page.stable \subseteq ToSet(page.seen)

(* A conversation is consistent for its readers: what completed is in it,  *)
(* and paging through it beside appends and deletions is.                  *)
ConversationInv == CompletedIsKept /\ PagesConsistent

(* Stale generation never lands: items are appended for a reply only onto  *)
(* the very history its prompt was built from, once, and nothing changes   *)
(* in a deleted conversation.                                              *)
AppendsOntoItsHistory ==
  [][/\ \A r \in applied' \ applied : convItems = reply[r].base
     /\ applied \subseteq applied'
     /\ ~conv.live => UNCHANGED convRows
     /\ \A r \in applied : <<"out", r>> \in ItemIds(convItems')
                             => <<"out", r>> \in ItemIds(convItems)]_convVars

(***************************************************************************)
(* The inductive invariant behind them (ConversationsProofs).              *)
(***************************************************************************)
Item == [id: ClientItemIds \cup Outputs, seq: Nat]

ReplyRow ==
  [at: {"none", "generate", "appended", "not kept", "completed", "failed", "lost"},
   mode: {"none", "foreground", "unstored", "background"}, version: Nat,
   base: Seq(Item), input: {<<>>} \cup {<<i>> : i \in ClientItemIds}]
PageRow ==
  [at: {"none", "more", "done"}, order: {"asc", "desc"}, seen: Seq(Item),
   stable: SUBSET Item, moved: BOOLEAN]

ConvTypeOK ==
  /\ conv \in [live: BOOLEAN, version: Nat] /\ convItems \in Seq(Item)
  /\ lastSeq \in Nat /\ applied \subseteq Replies
  /\ reply \in [Replies -> ReplyRow]
  /\ replyRecord \in [Replies -> {"none", "pending", "completed", "failed"}]
  /\ page \in PageRow
  /\ convFaults \in Nat /\ convCrashes \in Nat

(* The rows s are in the order of seq, an id is there once.                *)
RowsInOrder(s, last) ==
  /\ \A n \in DOMAIN s : s[n].seq <= last
  /\ \A m, n \in DOMAIN s : m < n => s[m].seq < s[n].seq /\ s[m].id # s[n].id

(* A version is a history: while it stands, so does what was read with it. *)
VersionIsHistory ==
  \A r \in Replies :
    /\ reply[r].at = "generate" => /\ reply[r].version <= conv.version
                                   /\ reply[r].version = conv.version
                                        => reply[r].base = convItems
    /\ reply[r].at = "appended" => r \in applied

(* y comes after x for a client that pages in that order.                  *)
Ahead(order, x, y) == IF order = "asc" THEN x.seq < y.seq ELSE y.seq < x.seq

(* How far a client with page p of the rows s has come: in order, its      *)
(* cursor where it was, and what was there all along behind it or ahead.   *)
PageInv(p, s) ==
  /\ p.at = "none" => p.seen = <<>> /\ p.stable = {} /\ ~p.moved
  /\ p.at = "more" => p.seen # <<>>
  /\ p.stable \subseteq ToSet(s)
  /\ ~p.moved =>
       /\ \A m, n \in DOMAIN p.seen : m < n => Ahead(p.order, p.seen[m], p.seen[n])
       /\ \A k \in DOMAIN s, m \in DOMAIN p.seen :
            s[k].id = p.seen[m].id => s[k] = p.seen[m]
       /\ \A x \in p.stable :
            \/ x \in ToSet(p.seen)
            \/ p.at = "more" /\ Ahead(p.order, Last(p.seen), x)

ConvIInv ==
  /\ ConvTypeOK /\ RowsInOrder(convItems, lastSeq) /\ VersionIsHistory
  /\ CompletedIsKept /\ PageInv(page, convItems)
=============================================================================
