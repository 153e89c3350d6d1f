--------------------------- MODULE CredsDataFile ---------------------------
(***************************************************************************)
(* The credential data file of packages/creds-manage: groups, basic-auth   *)
(* entries and token entries, and the mutation closures that the store     *)
(* operations of store.rs run on it.                                       *)
(*                                                                         *)
(* The two vectors basic_creds and token_creds become one function from    *)
(* entry ids to records that carry their kind, and a group_ids list        *)
(* becomes the set of its members.  Secrets are left out.  updated_at is   *)
(* the only timestamp kept: it is what makes two files with the same       *)
(* entries differ in content.                                              *)
(***************************************************************************)
EXTENDS Naturals

CONSTANTS EntryIds, GroupIds, EntryNames, GroupNames

\* An optional argument of a request that was not given (Option::None).
CONSTANT None

Kinds == {"basic", "token"}

AuthEntry ==
    [kind : Kinds, name : EntryNames, group_ids : SUBSET GroupIds,
     updated_at : Nat]

ASSUME NoneAssumption ==
    /\ None \notin AuthEntry
    /\ None \notin EntryNames \cup GroupNames \cup EntryIds \cup GroupIds
    /\ \A S \in SUBSET GroupIds : None # S
    /\ \A S \in SUBSET EntryIds : None # S

\* models.rs: DataFile.  An id that is not in the file maps to None.
DataFile ==
    [groups : [GroupIds -> {None} \cup GroupNames],
     entries : [EntryIds -> {None} \cup AuthEntry]]

\* models.rs: impl Default for DataFile; also what an empty file parses to.
DefaultDataFile ==
    [groups |-> [g \in GroupIds |-> None], entries |-> [e \in EntryIds |-> None]]

Groups(d) == {g \in GroupIds : d.groups[g] # None}
Entries(d) == {e \in EntryIds : d.entries[e] # None}

----------------------------------------------------------------------------
(* Checks the closures make before they change anything.                   *)

\* ensure_entry_name_is_unique(data, name, current_entry_id)
EntryNameIsUnique(d, name, current) ==
    \A e \in Entries(d) : d.entries[e].name = name => e = current

\* ensure_groups_exist
GroupsExist(d, group_ids) == group_ids \subseteq Groups(d)

\* the entry_exists loop of create_group and update_group
EntriesExist(d, entry_ids) == entry_ids \subseteq Entries(d)

\* g.name == name && g.id != current
GroupNameIsUnique(d, name, current) ==
    \A g \in Groups(d) : d.groups[g] = name => g = current

Given(arg, default) == IF arg = None THEN default ELSE arg

\* update_group_membership: updated_at moves only when the membership does.
UpdateGroupMembership(entry, g, member, now) ==
    LET ids == IF member THEN entry.group_ids \cup {g}
                         ELSE entry.group_ids \ {g}
    IN  [entry EXCEPT !.group_ids = ids,
                      !.updated_at = IF ids = entry.group_ids THEN @ ELSE now]

----------------------------------------------------------------------------
(* Requests.  A create request carries the id that Uuid::new_v4 gives it,   *)
(* which is not in use.                                                    *)

Request ==
    [op : {"create_entry"}, id : EntryIds, kind : Kinds, name : EntryNames,
     group_ids : SUBSET GroupIds]
    \cup [op : {"update_entry"}, id : EntryIds, name : EntryNames \cup {None},
          group_ids : (SUBSET GroupIds) \cup {None}]
    \cup [op : {"delete_entry"}, id : EntryIds]
    \cup [op : {"create_group"}, id : GroupIds, name : GroupNames,
          entry_ids : SUBSET EntryIds]
    \cup [op : {"update_group"}, id : GroupIds, name : GroupNames,
          entry_ids : (SUBSET EntryIds) \cup {None}]
    \cup [op : {"delete_group"}, id : GroupIds]

\* The closure returns Ok.
Accepts(d, r) ==
    CASE r.op = "create_entry" ->
            /\ r.id \notin Entries(d)
            /\ EntryNameIsUnique(d, r.name, None)
            /\ GroupsExist(d, r.group_ids)
      [] r.op = "update_entry" ->
            /\ r.name # None => EntryNameIsUnique(d, r.name, r.id)
            /\ r.group_ids # None => GroupsExist(d, r.group_ids)
            /\ r.id \in Entries(d)
      [] r.op = "delete_entry" -> r.id \in Entries(d)
      [] r.op = "create_group" ->
            /\ r.id \notin Groups(d)
            /\ GroupNameIsUnique(d, r.name, None)
            /\ EntriesExist(d, r.entry_ids)
      [] r.op = "update_group" ->
            /\ GroupNameIsUnique(d, r.name, r.id)
            /\ r.entry_ids # None => EntriesExist(d, r.entry_ids)
            /\ r.id \in Groups(d)
      [] r.op = "delete_group" -> r.id \in Groups(d)

\* f applied to every entry in the file
MapEntries(d, f(_, _)) ==
    [e \in EntryIds |-> IF e \in Entries(d) THEN f(e, d.entries[e]) ELSE None]

CreateEntry(d, r, now) ==
    [d EXCEPT !.entries[r.id] =
        [kind |-> r.kind, name |-> r.name, group_ids |-> r.group_ids,
         updated_at |-> now]]

UpdateEntry(d, r, now) ==
    LET old == d.entries[r.id]
        new == [old EXCEPT !.name = Given(r.name, old.name),
                           !.group_ids = Given(r.group_ids, old.group_ids),
                           !.updated_at = now]
    IN  [d EXCEPT !.entries[r.id] = new]

DeleteEntry(d, r) == [d EXCEPT !.entries[r.id] = None]

\* Only the listed entries are touched, and only by gaining the new group.
CreateGroup(d, r, now) ==
    LET Join(e, entry) ==
            IF e \in r.entry_ids
            THEN UpdateGroupMembership(entry, r.id, TRUE, now) ELSE entry
    IN  [groups |-> [d.groups EXCEPT ![r.id] = r.name],
         entries |-> MapEntries(d, Join)]

\* With a list the membership becomes exactly that list, without one it stays.
UpdateGroup(d, r, now) ==
    LET Member(e, entry) ==
            IF r.entry_ids = None THEN r.id \in entry.group_ids
                                  ELSE e \in r.entry_ids
        Set(e, entry) ==
            UpdateGroupMembership(entry, r.id, Member(e, entry), now)
    IN  [groups |-> [d.groups EXCEPT ![r.id] = r.name],
         entries |-> MapEntries(d, Set)]

DeleteGroup(d, r, now) ==
    LET Leave(e, entry) == UpdateGroupMembership(entry, r.id, FALSE, now)
    IN  [groups |-> [d.groups EXCEPT ![r.id] = None],
         entries |-> MapEntries(d, Leave)]

\* What an accepted request leaves in the file.
Apply(d, r, now) ==
    CASE r.op = "create_entry" -> CreateEntry(d, r, now)
      [] r.op = "update_entry" -> UpdateEntry(d, r, now)
      [] r.op = "delete_entry" -> DeleteEntry(d, r)
      [] r.op = "create_group" -> CreateGroup(d, r, now)
      [] r.op = "update_group" -> UpdateGroup(d, r, now)
      [] r.op = "delete_group" -> DeleteGroup(d, r, now)

----------------------------------------------------------------------------
(* What every file written by the store satisfies.                         *)

EntryNamesUnique(d) ==
    \A e, f \in Entries(d) : d.entries[e].name = d.entries[f].name => e = f

GroupNamesUnique(d) ==
    \A g, h \in Groups(d) : d.groups[g] = d.groups[h] => g = h

\* No entry belongs to a group that does not exist.
GroupReferencesResolve(d) ==
    \A e \in Entries(d) : d.entries[e].group_ids \subseteq Groups(d)

WellFormed(d) ==
    EntryNamesUnique(d) /\ GroupNamesUnique(d) /\ GroupReferencesResolve(d)
=============================================================================
