---------------------------- MODULE AnchorCache ----------------------------
(* collator/src/mempool/impls/std_impl/cache.rs: anchors for the collators by their
   id, in the order of insertion.  An anchor has an id, externals and prev, the id of
   the previous one or None.                                                   *)
EXTENDS IndexMap

None == 0

\* Cache::push; an anchor that is already there is replaced.
push(c, anchor) == Insert(c, anchor.id, anchor)

\* Cache::clear.
clear(c, before) == Restrict(c, {id \in DOMAIN c : id >= before})

\* Answers of the two queries: wait for a push, an anchor, nothing, or an error.
Wait         == [is |-> "wait"]
Exist(a)     == [is |-> "anchor", anchor |-> a]
NotExist     == [is |-> "none"]
Error(error) == [is |-> "error", error |-> error]

\* One turn of the loop of Cache::get_anchor_by_id.
get_anchor_by_id(c, id) ==
  IF DOMAIN c = {} THEN Wait
  ELSE IF id < FirstKey(c) THEN NotExist
  ELSE IF id \in DOMAIN c THEN Exist(c[id].v)
  ELSE IF LastKey(c) > id THEN NotExist
  ELSE Wait

\* get_next_anchor: is `found` the one after prev?
Linked(prev, found) ==
  IF found.prev = prev THEN Exist(found)
  ELSE Error(IF found.prev = None THEN "NoPreviousAnchor"
             ELSE IF prev < found.prev THEN "UnexpectedGap" ELSE "UnexpectedAnchor")

\* get_next_anchor: prev is older than all anchors.
Older(prev, first) ==
  IF first.prev = None THEN Exist(first)
  ELSE IF first.prev = prev THEN Error("FirstAnchorRemoved")
  ELSE NotExist

\* One turn of the loop of Cache::get_next_anchor.
get_next_anchor(c, prev) ==
  IF DOMAIN c = {} THEN Wait
  ELSE IF prev < FirstKey(c) THEN Older(prev, c[FirstKey(c)].v)
  ELSE IF prev \in DOMAIN c
    THEN IF KeysAfter(c, prev) # {} THEN Linked(prev, c[NextKey(c, prev)].v) ELSE Wait
  ELSE IF LastKey(c) > prev THEN NotExist
  ELSE Wait
=============================================================================
