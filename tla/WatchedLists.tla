---------------------------- MODULE WatchedLists ----------------------------
(***************************************************************************)
(* The operations of WatchedList as functions on a record.  Items are told *)
(* apart by compareItems alone and no caller depends on their order, so    *)
(* the arrays are sets.  What a set cannot show is that the constructor    *)
(* stores the caller's one array as both currentItems and initial: while   *)
(* they are still that one array (shared), a push reaches both.            *)
(***************************************************************************)

WatchedListsOf(Items) ==
  [current : SUBSET Items, initial : SUBSET Items, new : SUBSET Items,
   removed : SUBSET Items, shared : BOOLEAN]

\* new WatchedList(items), or new WatchedList(): `initialItems || []` twice
\* makes two arrays.
Constructed(items) ==
  [current |-> items, initial |-> items, new |-> {}, removed |-> {}, shared |-> TRUE]
ConstructedEmpty ==
  [current |-> {}, initial |-> {}, new |-> {}, removed |-> {}, shared |-> FALSE]

\* An add that leaves the item among the removed ones.
AddKeepingRemoved(list, item) ==
  [list EXCEPT
     !.new     = IF item \in list.initial THEN @ ELSE @ \cup {item},
     !.current = @ \cup {item},
     !.initial = IF list.shared THEN @ \cup {item} ELSE @]

Add(list, item) ==
  [list EXCEPT
     !.removed = @ \ {item},
     !.new     = IF item \in list.initial THEN @ ELSE @ \cup {item},
     !.current = @ \cup {item},
     !.initial = IF list.shared THEN @ \cup {item} ELSE @]

\* filter makes a new array, so currentItems and initial part ways.
RemoveOne(list, item) ==
  [list EXCEPT
     !.current = @ \ {item},
     !.shared  = FALSE,
     !.new     = @ \ {item},
     !.removed = IF item \in list.new THEN @ ELSE @ \cup {item}]

\* An update that compares with an empty list instead of the current one.
UpdateForgetting(list, items) ==
  [list EXCEPT
     !.current = items, !.shared = FALSE, !.new = items, !.removed = {}]

\* The difference is taken from the current items, whatever was added or
\* removed before.
Update(list, items) ==
  [list EXCEPT
     !.current = items,
     !.shared  = FALSE,
     !.new     = items \ list.current,
     !.removed = list.current \ items]

=============================================================================
