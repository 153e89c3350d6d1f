------------------------- MODULE MCCredsManageStore -------------------------
(* Small instances of the credential store for TLC.                         *)
EXTENDS CredsManageStore, TLC

CONSTANTS p1, p2, c1, c2, e1, e2, e3, g1, g2

\* One entry in one group; a second, well-formed content from outside.
MCFile(entry) ==
    [groups |-> [g \in GroupIds |-> IF g = g1 THEN "ops" ELSE None],
     entries |-> [e \in EntryIds |-> IF e = e1 THEN entry ELSE None]]

MCInitialFile ==
    MCFile([kind |-> "basic", name |-> "alice", group_ids |-> {g1},
            updated_at |-> 0])

MCEdit ==
    MCFile([kind |-> "token", name |-> "bob", group_ids |-> {},
            updated_at |-> 0])

MCEdits == {MCEdit, Corrupt}

MCOneProc == c1 :> p1 @@ c2 :> p1
MCTwoProcs == c1 :> p1 @@ c2 :> p2

\* Requests that conflict in names, ids and group references.
MCConflicting ==
    {[op |-> "create_entry", id |-> e2, kind |-> "token", name |-> "bob",
      group_ids |-> {g1}],
     [op |-> "create_entry", id |-> e3, kind |-> "basic", name |-> "bob",
      group_ids |-> {}],
     [op |-> "update_entry", id |-> e1, name |-> "bob", group_ids |-> None],
     [op |-> "delete_group", id |-> g1]}

\* Two writes of one process, no other actor.
MCTwoWrites ==
    {[op |-> "create_entry", id |-> e2, kind |-> "token", name |-> "bob",
      group_ids |-> {}],
     [op |-> "delete_entry", id |-> e1]}
=============================================================================
