------------------------------ MODULE FileTree ------------------------------
(***************************************************************************)
(* Virtual file paths (helperFunctions/virtual_file_path.py) and the       *)
(* entries of the table file_object with their relations                   *)
(* (storage/schema.py).  A path is the sequence of the uids from the       *)
(* firmware to the archive that holds the file, followed by the name of    *)
(* the file in that archive; the path of a firmware is its uid alone.      *)
(***************************************************************************)
EXTENDS Integers, Sequences, FiniteSets, SequencesExt, Functions

CONSTANTS
    Uids,       \* every file there is
    Content,    \* what the extractor yields: uid -> SUBSET [name, uid]
    MaxDepth    \* unpack.max_depth of the configuration

ASSUME ContentAssumption ==
    /\ IsFiniteSet(Uids) /\ DOMAIN Content = Uids
    /\ \A u \in Uids : \A c \in Content[u] : c.uid \in Uids

-----------------------------------------------------------------------------
(* Virtual file paths *)

BaseOf(path) == Front(path)

\* The paths with a base that is found again are replaced, the others are kept.
MergeVfpLists(old, new) ==
    {p \in old : \A q \in new : BaseOf(p) # BaseOf(q)} \cup new

\* Virtual file paths are a function from roots to sets of paths.
UpdateVirtualFilePath(new, old) ==
    [r \in DOMAIN old \cup DOMAIN new |->
        IF r \notin DOMAIN new THEN old[r]
        ELSE IF r \notin DOMAIN old THEN new[r]
        ELSE MergeVfpLists(old[r], new[r])]

-----------------------------------------------------------------------------
(* File objects in memory: all paths of one have the same base.            *)

\* A firmware as it is uploaded.
FirmwareObject(uid) ==
    [uid |-> uid, firmware |-> TRUE, root |-> uid, parents |-> {}, roots |-> {},
     base |-> << >>, names |-> {uid}, depth |-> 0]

\* The uids an archive yields, each once and without the archive itself.
YieldedUids(fo) == {c.uid : c \in Content[fo.uid]}
ExtractedUids(fo) == YieldedUids(fo) \ {fo.uid}

\* A file found several times in the archive gets a path for each time.
ExtractedObject(fo, uid) ==
    [uid |-> uid, firmware |-> FALSE, root |-> fo.root, parents |-> {fo.uid},
     roots |-> {fo.root}, base |-> Append(fo.base, fo.uid),
     names |-> {c.name : c \in {d \in Content[fo.uid] : d.uid = uid}},
     depth |-> fo.depth + 1]

\* The files of an archive, in an order of the uids.
ExtractedObjects(fo, order) == [i \in DOMAIN order |-> ExtractedObject(fo, order[i])]

VfpOf(fo) == [r \in {fo.root} |-> {Append(fo.base, name) : name \in fo.names}]

-----------------------------------------------------------------------------
(* The tables.  An entry holds the columns the properties tell apart; the  *)
(* tables included_files and fw_files are the sets parents and roots, the  *)
(* row of the table firmware is the field metaData.                        *)

NewEntry(fo) ==
    [firmware |-> fo.firmware, metaData |-> fo.firmware, parents |-> fo.parents,
     roots |-> fo.roots, vfp |-> VfpOf(fo), analyzed |-> FALSE]

Included(db, uid) == {c \in DOMAIN db : uid \in db[c].parents}

\* The entry is gone, with its rows in the two tables.
RemoveRows(db, gone) ==
    [u \in DOMAIN db \ gone |->
        [db[u] EXCEPT !.parents = @ \ gone, !.roots = @ \ gone]]

Orphans(db) == {u \in DOMAIN db : db[u].parents = {} /\ ~db[u].firmware}

Rounds == [i \in 1 .. Cardinality(Uids) |-> i]

Descendants(db, uid) ==
    FoldLeft(LAMBDA found, i : found \cup UNION {Included(db, u) : u \in found},
             Included(db, uid), Rounds)

\* delete_file_orphans: a deletion deletes the entries it leaves without parents,
\* which may leave others without parents, until none is left.
Cascade(db, uid) ==
    {u \in DOMAIN db : \A gone \in SUBSET DOMAIN db :
        uid \in gone /\ Orphans(RemoveRows(db, gone)) = {} => u \in gone}

\* _remove_virtual_path_entries for all files below a firmware: a file of other
\* firmware loses its paths in this one, ...
InOtherFirmware(db, root, u) == \E r \in DOMAIN db[u].vfp : r # root
RemoveVirtualPathEntries(db, root) ==
    [u \in DOMAIN db |->
        IF u \in Descendants(db, root) /\ InOtherFirmware(db, root, u)
          THEN [db[u] EXCEPT !.vfp = Restrict(@, DOMAIN @ \ {root})]
          ELSE db[u]]
\* ... every other one is to be deleted.  Mutant: without what is in archives.
OnlyChildren(db, root) == {u \in Included(db, root) : ~InOtherFirmware(db, root, u)}
UidsToDelete(db, root) == {u \in Descendants(db, root) : ~InOtherFirmware(db, root, u)}
=============================================================================
