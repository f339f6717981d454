----------------------------- MODULE WatchedList -----------------------------
(***************************************************************************)
(* One WatchedList object and every sequence of calls on it.  The order    *)
(* use cases make one such sequence: the constructor with the loaded       *)
(* attachments, then at most one update.                                   *)
(***************************************************************************)
EXTENDS WatchedLists

CONSTANT Elements

VARIABLES
  list,    \* the object
  loaded,  \* history: the items it was constructed with
  history  \* history: which calls it has seen since

vars == <<list, loaded, history>>

TypeOK ==
  /\ list \in WatchedListsOf(Elements)
  /\ loaded \in SUBSET Elements
  /\ history \in {"constructed", "updated", "other"}

Init ==
  /\ loaded \in SUBSET Elements
  /\ list \in {Constructed(loaded)} \cup (IF loaded = {} THEN {ConstructedEmpty} ELSE {})
  /\ history = "constructed"

AddItem(item) ==
  /\ list' = Add(list, item)
  /\ history' = "other"
  /\ UNCHANGED loaded

RemoveItem(item) ==
  /\ list' = RemoveOne(list, item)
  /\ history' = "other"
  /\ UNCHANGED loaded

UpdateItems(items) ==
  /\ list' = Update(list, items)
  /\ history' = IF history = "constructed" THEN "updated" ELSE "other"
  /\ UNCHANGED loaded

Next ==
  \/ \E item \in Elements : AddItem(item) \/ RemoveItem(item)
  \/ \E items \in SUBSET Elements : UpdateItems(items)

Spec == Init /\ [][Next]_vars

-----------------------------------------------------------------------------

\* Whatever the calls, new items are among the current ones and removed items
\* are not, so a save never both attaches and detaches an item.
DifferenceIsConsistent ==
  /\ list.new \subseteq list.current
  /\ list.removed \cap list.current = {}

\* After the one update that EditOrderUseCase makes, new and removed are
\* exactly what was added to and taken from the loaded items.
OneUpdateIsExact ==
  history = "updated" =>
    /\ list.new = list.current \ loaded
    /\ list.removed = loaded \ list.current

=============================================================================
