----------------------------- MODULE ServerStore -----------------------------
(***************************************************************************)
(* The two stores behind a user's backup and the operations Server::push   *)
(* and Server::get perform on them: the directory tree under               *)
(* root_path/user, through boost::filesystem, and the rows of the table    *)
(* SESSIONS, through Database_API.                                         *)
(*                                                                         *)
(* A store is a function on Paths.  A node of the tree is Absent, Dir, or  *)
(* the contents of a file.  A row is NoRow, DirRow (dir = 1, reported with *)
(* the empty hash), or the hash of a file; Dir stands for the empty hash,  *)
(* which a file's row holds if the path was a directory when the client    *)
(* scanned it and a file when it was pushed.  SHA256 is taken as           *)
(* injective: the hash of a content is that content.  A path without       *)
(* ancestors in Paths is directly under the user's directory, which login  *)
(* creates.                                                                *)
(***************************************************************************)
CONSTANTS Paths,       \* the relative paths users give their files
          Ancestors,   \* the proper ancestors of each path, below the root
          Contents     \* contents of regular files

Absent == "absent"
Dir    == "dir"
NoRow  == "no row"
DirRow == "dir row"

ASSUME PathsAssumption ==
    /\ Ancestors \in [Paths -> SUBSET Paths]
    /\ \A p \in Paths : p \notin Ancestors[p]
    /\ \A p \in Paths : \A a \in Ancestors[p] : Ancestors[a] \subseteq Ancestors[p]
    /\ {Absent, Dir, NoRow, DirRow} \cap Contents = {}

Nodes == Contents \cup {Absent, Dir}
FileRows == Contents \cup {Dir}
Rows  == FileRows \cup {NoRow, DirRow}

Below(p) == {q \in Paths : p \in Ancestors[q]}

-----------------------------------------------------------------------------
\* The disk.

ParentIsDir(disk, p) == \A a \in Ancestors[p] : disk[a] = Dir

\* Server::create_dirs makes the missing ancestors of p, top down.  A file in
\* the place of an ancestor is skipped by fs::exists; the next directory
\* below it cannot be created and throws.
CreateDirsThrows(disk, p) ==
    \E a \in Ancestors[p] : disk[a] \in Contents /\ Below(a) \cap Ancestors[p] # {}

CreateDirs(disk, p) ==
    [q \in Paths |-> IF q \in Ancestors[p] /\ disk[q] = Absent THEN Dir ELSE disk[q]]

\* Utils::write_on_file opens an ofstream and never looks at its state: if
\* the file cannot be opened nothing is written and nobody is told.
WriteOnFile(disk, p, c) ==
    IF ParentIsDir(disk, p) /\ disk[p] # Dir THEN [disk EXCEPT ![p] = c] ELSE disk

\* fs::remove refuses a directory that is not empty.
RemoveThrows(disk, p) == disk[p] = Dir /\ \E q \in Below(p) : disk[q] # Absent

Remove(disk, p) == [disk EXCEPT ![p] = Absent]

RemoveAll(disk, p) == [q \in Paths |-> IF q = p \/ p \in Ancestors[q] THEN Absent ELSE disk[q]]

\* fs::create_directory, called only if nothing exists at p.
CreateDirectoryThrows(disk, p) == disk[p] = Absent /\ ~ParentIsDir(disk, p)

CreateDirectory(disk, p) == IF disk[p] = Absent THEN [disk EXCEPT ![p] = Dir] ELSE disk

-----------------------------------------------------------------------------
\* The rows.

\* path is the primary key: a second INSERT for it fails.
InsertFails(db, p) == db[p] # NoRow

InsertPath(db, p, row) == [db EXCEPT ![p] = row]

\* An UPDATE that matches no row is SQLITE_DONE, and so is one that changes the hash of
\* a directory's row, which get_schema goes on reporting as a directory.
UpdatePath(db, p, h) == IF db[p] \in FileRows THEN [db EXCEPT ![p] = h] ELSE db

\* Mutant: the DELETE is prepared and never stepped.
DeleteNothing(db, p) == db

\* A DELETE that matches no row is SQLITE_DONE.
DeletePath(db, p) == [db EXCEPT ![p] = NoRow]

-----------------------------------------------------------------------------
\* What a restoring client is told there is (get_path_schema).
Listed(db) == {p \in Paths : db[p] # NoRow}

\* What a client that asks for everything back is given for path p: a listed
\* path that is not a regular file on disk is answered as a directory
\* (Server::get).
Delivered(disk, db, p) ==
    IF p \notin Listed(db) THEN Absent ELSE IF disk[p] \in Contents THEN disk[p] ELSE Dir

\* The row of a file has that file on disk, with the contents of its hash.
Agree(disk, db, p) == db[p] \in Contents => disk[p] = db[p]

\* What a restore should leave at p: what the server delivers, and the
\* directories that lead to it.
Wanted(disk, db, p) == IF p \in Listed(db) THEN Delivered(disk, db, p)
                       ELSE IF Below(p) \cap Listed(db) # {} THEN Dir ELSE Absent

\* No listed path is below one that is delivered as a file.
Consistent(disk, db) == \A p \in Listed(db) : \A a \in Ancestors[p] : Delivered(disk, db, a) \notin Contents

\* The trees and the rows there can be where a path p is given to what
\* kinds[p] has of "file" and "dir".
TreesOf(kinds) ==
    {t \in [Paths -> Nodes] : \A p \in Paths :
        /\ t[p] = Absent \/ (t[p] = Dir /\ "dir" \in kinds[p]) \/ (t[p] \in Contents /\ "file" \in kinds[p])
        /\ t[p] # Absent => ParentIsDir(t, p)}
RowsOf(kinds) ==
    {rows \in [Paths -> Rows] : \A p \in Paths :
        rows[p] = NoRow \/ (rows[p] = DirRow /\ "dir" \in kinds[p]) \/ (rows[p] \in Contents /\ "file" \in kinds[p])}
=============================================================================
