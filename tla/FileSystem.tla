----------------------------- MODULE FileSystem -----------------------------
(***************************************************************************)
(* The in-memory, physical and ZIP file systems and the sessions over      *)
(* them.  Writers write and delete; somebody else may replace a ZIP        *)
(* archive.  A session takes a directory, which is a list of entries that  *)
(* is never brought up to date, and asks it for its files or entries, or   *)
(* pages through a query; each entry is tested for existence and read      *)
(* later, and anything may happen in between.                              *)
(*                                                                         *)
(* A path is [rooted, segs, back]: whether it starts with a slash, its     *)
(* names (a slash at the end is an empty last one), and whether it is      *)
(* written with backslashes.  What is stored has a key [rooted, segs].  Of *)
(* the text of a file is kept whether it is "whole", what one writer gave, *)
(* "empty" because it has been cut and not yet filled, or "torn" because   *)
(* one text was written over another.                                      *)
(* File names and locks are those of Unix.  A test that asks for a file,   *)
(* then for a directory, is one step, and so is one enumeration of a       *)
(* directory.                                                              *)
(***************************************************************************)
EXTENDS Integers, Sequences, FiniteSets, SequencesExt

CONSTANTS Writers, Sessions,
          Kinds,      \* the providers: "memory", "physical", "zip"
          Paths,      \* kind -> paths that are written, deleted, put in an archive
          Folders,    \* kind -> paths that are listed
          Names,      \* names of subdirectories that are asked for
          Ordinal,    \* key -> its place in the ordinal order
          Limit,      \* rows of a page
          MaxDepth,   \* bound on the depth of directories that are asked for
          MaxBusy     \* bound on the writers and sessions at work at once

Keys == DOMAIN Ordinal
Key(rooted, segs) == [rooted |-> rooted, segs |-> segs]
Root == Key(TRUE, <<>>)

\* The keys a path may have, and those of the directories it lies in.
KeysOf(path) ==
  {Key(r, SubSeq(path.segs, 1, n)) : r \in BOOLEAN, n \in 0..Len(path.segs)}

\* The order is total.  The paths of the disk start with a slash: another one
\* is relative to the current directory of the process.
ASSUME FileSystemAssumption ==
  /\ Limit \in Nat \ {0} /\ MaxDepth \in Nat /\ MaxBusy \in Nat
  /\ Kinds \subseteq {"memory", "physical", "zip"} /\ Names \subseteq STRING
  /\ Keys \subseteq [rooted : BOOLEAN, segs : Seq(STRING)]
  /\ \A k, l \in Keys : Ordinal[k] \in Int /\ (Ordinal[k] = Ordinal[l] => k = l)
  /\ Root \in Keys
  /\ \A k \in Kinds : \A path \in Paths[k] \cup Folders[k] :
       /\ path.rooted \in BOOLEAN /\ path.segs \in Seq(STRING) /\ KeysOf(path) \subseteq Keys
       /\ k = "physical" => path.rooted

VARIABLES kind,      \* which provider is used
          files,     \* _files, the files on disk or those of the archive
          dirs,      \* directories on disk
          overlaid,  \* files on disk that two writers had open at once
          writer,    \* where each writer is in WriteText or Delete
          session    \* the directory or query of each session

vars == <<kind, files, dirs, overlaid, writer, session>>

-----------------------------------------------------------------------------
(* Paths and keys.                                                         *)

KeyOf(path) == Key(path.rooted, path.segs)

\* The two Normalize functions; the disk takes a path as it is.
Normalize(path) ==
  CASE kind = "memory" /\ ~path.rooted /\ path.segs = <<>> -> Root
    [] kind = "zip" -> Key(FALSE, path.segs)
    [] OTHER -> KeyOf(path)

\* TrimEnd('/') on a key.
TrimEnd(key) ==
  [key EXCEPT !.segs = IF @ # <<>> /\ Last(@) = "" THEN Front(@) ELSE @]

\* key starts with the name of dir and a slash.
StartsWith(key, dir) ==
  IF dir.segs = <<>> THEN key.rooted
  ELSE key.rooted = dir.rooted /\ IsStrictPrefix(dir.segs, key.segs)

Parent(key) == Key(key.rooted, Front(key.segs))
Ancestors(key) == {Key(key.rooted, SubSeq(key.segs, 1, n)) : n \in 0..(Len(key.segs) - 1)}

Existing == DOMAIN files \cup dirs

\* What a listing of dir is about: everything below, or the entries on disk.
Belongs(key, dir) ==
  IF kind = "physical" THEN key # Root /\ Parent(key) = dir ELSE StartsWith(key, dir)

Precedes(k, l) == Ordinal[k] < Ordinal[l]

\* The keys in ordinal order: at n is the one that has n - 1 before it.
Before(k, keys) == {l \in keys : Precedes(l, k)}
OrderBy(keys) ==
  [n \in 1..Cardinality(keys) |-> CHOOSE k \in keys : Cardinality(Before(k, keys)) = n - 1]

\* What List returns.
Listing(dir) == {k \in Existing : Belongs(k, dir)}
List(dir) == OrderBy(Listing(dir))

-----------------------------------------------------------------------------
(* The store, and what the sessions could see of it.                       *)

Idle == [pc |-> "idle"]

Init ==
  /\ kind \in Kinds
  /\ files = <<>>
  /\ dirs = IF kind = "physical" THEN {Root} ELSE {}
  /\ overlaid = {}
  /\ writer = [w \in Writers |-> Idle]
  /\ session = [s \in Sessions |-> Idle]

Relevant(x, keys) == {k \in keys : k = x.dir \/ Belongs(k, x.dir)}

\* stable: what was there ever since the directory was listed; while a call
\* runs, gone: what went, and for a query new: what came.
Watch(x, f, d) ==
  LET there   == DOMAIN f \cup d
      calling == x.pc \notin {"listed", "done"}
  IN  [x EXCEPT !.stable = @ \cap there,
                !.gone = IF calling THEN @ \cup Relevant(x, Existing \ there) ELSE @,
                !.new = IF calling /\ x.op = "query"
                        THEN @ \cup Relevant(x, there \ Existing) ELSE @]

\* The store becomes f and d.
Store(f, d) ==
  /\ files' = f
  /\ dirs' = d
  /\ session' = [s \in Sessions |->
                  IF session[s].pc = "idle" THEN Idle ELSE Watch(session[s], f, d)]

With(key, text) == [k \in DOMAIN files \cup {key} |-> IF k = key THEN text ELSE files[k]]
Without(keys) == [k \in DOMAIN files \ keys |-> files[k]]

Busy == {w \in Writers : writer[w] # Idle} \cup {s \in Sessions : session[s] # Idle}
MayStart == Cardinality(Busy) < MaxBusy

-----------------------------------------------------------------------------
(* MemoryFileSystemProvider, and an archive replaced by another one.       *)

WriteMemory(path) ==
  /\ kind = "memory"
  /\ Store(With(Normalize(path), "whole"), dirs)
  /\ UNCHANGED <<kind, overlaid, writer>>

DeleteMemory(path) ==
  /\ kind = "memory"
  /\ Store(Without({Normalize(path)}), dirs)
  /\ UNCHANGED <<kind, overlaid, writer>>

\* The archive is opened anew by every call, so that another one may be there.
ReplaceArchive(path) ==
  /\ kind = "zip"
  /\ \/ Store(With(Normalize(path), "whole"), dirs)
     \/ Store(Without({Normalize(path)}), dirs)
  /\ UNCHANGED <<kind, overlaid, writer>>

-----------------------------------------------------------------------------
(* PhysicalFileSystemProvider.                                             *)

Move(w, next) == writer' = [writer EXCEPT ![w] = next]

\* Only the directory of the file is made.
MakeDirectory_ParentOnly(w, path) ==
  /\ kind = "physical" /\ writer[w] = Idle /\ MayStart
  /\ Ancestors(KeyOf(path)) \cap DOMAIN files = {}
  /\ Store(files, dirs \cup {Parent(KeyOf(path))})
  /\ Move(w, [pc |-> "made", key |-> KeyOf(path)])
  /\ UNCHANGED <<kind, overlaid>>

\* WriteText: the directories on the way are made, unless a file is among them.
MakeDirectory(w, path) ==
  /\ kind = "physical" /\ writer[w] = Idle /\ MayStart
  /\ Ancestors(KeyOf(path)) \cap DOMAIN files = {}
  /\ Store(files, dirs \cup Ancestors(KeyOf(path)))
  /\ Move(w, [pc |-> "made", key |-> KeyOf(path)])
  /\ UNCHANGED <<kind, overlaid>>

Writing(w, key) == writer[w].pc = "opened" /\ writer[w].key = key

\* The file is opened without being cut.
Truncate_KeepsText(w) ==
  LET key == writer[w].key IN
  /\ writer[w].pc = "made"
  /\ IF Parent(key) \in dirs /\ key \notin dirs
     THEN /\ Store(With(key, IF key \in DOMAIN files THEN files[key] ELSE "empty"), dirs)
          /\ overlaid' = IF \E v \in Writers \ {w} : Writing(v, key)
                         THEN overlaid \cup {key} ELSE overlaid \ {key}
          /\ Move(w, [writer[w] EXCEPT !.pc = "opened"])
     ELSE /\ Move(w, Idle)
          /\ UNCHANGED <<files, dirs, overlaid, session>>
  /\ UNCHANGED kind

\* WriteAllText opens the file and cuts it to nothing, or throws.
Truncate(w) ==
  LET key == writer[w].key
      others == {v \in Writers \ {w} : Writing(v, key)}
  IN  /\ writer[w].pc = "made"
      /\ IF Parent(key) \in dirs /\ key \notin dirs
         THEN /\ Store(With(key, "empty"), dirs)
              /\ overlaid' = IF others = {} THEN overlaid \ {key} ELSE overlaid \cup {key}
              /\ Move(w, [writer[w] EXCEPT !.pc = "opened"])
         ELSE /\ Move(w, Idle)
              /\ UNCHANGED <<files, dirs, overlaid, session>>
      /\ UNCHANGED kind

\* The text is written over what another writer may have put there since.
WriteAllText(w) ==
  LET key == writer[w].key IN
  /\ writer[w].pc \in {"opened", "unlinked"}
  /\ IF writer[w].pc = "unlinked"
     THEN UNCHANGED <<files, dirs, session>>
     ELSE \E text \in IF files[key] = "empty" THEN {"whole"} ELSE {"whole", "torn"} :
            Store(With(key, text), dirs)
  /\ Move(w, Idle)
  /\ UNCHANGED <<kind, overlaid>>

\* Keys vanish from the disk; who has one open writes into nothing.
Unlink(w, keys, next) ==
  /\ Store(Without(keys), dirs \ keys)
  /\ overlaid' = overlaid \ keys
  /\ writer' = [v \in Writers |->
       IF v = w THEN next
       ELSE IF \E k \in keys : Writing(v, k) THEN [writer[v] EXCEPT !.pc = "unlinked"]
       ELSE writer[v]]

\* Delete: File.Exists, and if it fails Directory.Exists.
TestDelete(w, path) ==
  /\ kind = "physical" /\ writer[w] = Idle /\ MayStart
  /\ KeyOf(path) \in Existing
  /\ Move(w, [pc |-> IF KeyOf(path) \in DOMAIN files THEN "file" ELSE "directory",
              key |-> KeyOf(path), todo |-> {k \in Existing : StartsWith(k, KeyOf(path))}])
  /\ UNCHANGED <<kind, files, dirs, overlaid, session>>

\* A file that has gone is no error; one that is now a directory is.
DeleteFile(w) ==
  /\ writer[w].pc = "file"
  /\ Unlink(w, {writer[w].key} \cap DOMAIN files, Idle)
  /\ UNCHANGED kind

\* The entries of a directory are removed one by one, each after those below
\* it; what came after the enumeration is met or missed, and a directory
\* that is not empty in the end makes the call throw.
DeleteDirectory(w) ==
  LET x == writer[w]
      Below(k) == {l \in Existing : l # k /\ StartsWith(l, k)}
  IN  /\ x.pc = "directory"
      /\ \E k \in Below(x.key) \cup {x.key} :
           /\ Below(k) \cap x.todo = {}
           /\ IF Below(k) = {} /\ k \in Existing
              THEN Unlink(w, {k}, IF k = x.key THEN Idle ELSE x)
              ELSE /\ Move(w, Idle)
                   /\ UNCHANGED <<files, dirs, overlaid, session>>
      /\ UNCHANGED kind

-----------------------------------------------------------------------------
(* StandardFileSystemVfsSession and StandardVfsDirectory.                  *)

Become(s, x) ==
  /\ session' = [session EXCEPT ![s] = x]
  /\ UNCHANGED <<kind, files, dirs, overlaid, writer>>

\* GetDirectoryAsync and QueryAsync start by listing.
Begin(s, path, op) ==
  /\ session[s] = Idle /\ MayStart
  /\ LET dir == TrimEnd(Normalize(path)) IN
     Become(s, [pc |-> "list", op |-> op, dir |-> dir,
                entries |-> <<>>, todo |-> <<>>, rows |-> <<>>, offset |-> 0,
                stable |-> Listing(dir), gone |-> {}, new |-> {}])

\* Take comes before Skip.
Listed_TakesFirst(x, list) ==
  IF x.op = "query"
  THEN [x EXCEPT !.pc = "check", !.todo = SubSeq(list, x.offset + 1, Min({Limit, Len(list)}))]
  ELSE [x EXCEPT !.pc = "listed", !.entries = list]

\* The listing is there: a query goes through one page of it.
Listed(x, list) ==
  IF x.op = "query"
  THEN [x EXCEPT !.pc = "check",
                 !.todo = SubSeq(list, x.offset + 1, Min({x.offset + Limit, Len(list)}))]
  ELSE [x EXCEPT !.pc = "listed", !.entries = list]

\* List; on disk Directory.Exists comes first.
ListStep(s) ==
  LET x == session[s] IN
  /\ x.pc = "list"
  /\ Become(s, IF kind # "physical" THEN Listed(x, List(x.dir))
               ELSE IF x.dir \in dirs THEN [x EXCEPT !.pc = "enumerate"]
               ELSE Listed(x, <<>>))

\* EnumerateFileSystemEntries throws if the directory has gone since.
Enumerate(s) ==
  LET x == session[s] IN
  /\ x.pc = "enumerate"
  /\ Become(s, IF x.dir \in dirs THEN Listed(x, List(x.dir)) ELSE [x EXCEPT !.pc = "failed"])

\* GetFilesAsync or GetEntriesAsync on the entries the directory was given.
Call(s, op) ==
  LET x == session[s] IN
  /\ x.pc \in {"listed", "done"} /\ x.op # "query"
  /\ Become(s, [x EXCEPT !.pc = "check", !.op = op, !.todo = x.entries, !.rows = <<>>,
                         !.gone = {}])

\* GetSubdirectoryAsync gives a directory that was never listed.
GetSubdirectory(s, name) ==
  LET x == session[s] IN
  /\ x.pc \in {"listed", "done"} /\ x.op # "query" /\ Len(x.dir.segs) < MaxDepth
  /\ Become(s, [x EXCEPT !.pc = "listed", !.dir.segs = Append(@, name), !.entries = <<>>,
                         !.rows = <<>>, !.stable = {}])

Row(key, exists) == [key |-> key, exists |-> exists]

\* Files are read without a test.
CheckEntry_Untested(s) ==
  LET x == session[s] IN
  /\ x.pc = "check" /\ x.todo # <<>>
  /\ Become(s, IF x.op # "query" THEN [x EXCEPT !.pc = "read"]
               ELSE [x EXCEPT !.todo = Tail(@), !.rows = Append(@, Row(Head(x.todo), TRUE))])

\* Exists on the next entry.  Files that have gone are left out, entries get
\* the size 0, and rows say so.
CheckEntry(s) ==
  LET x == session[s]
      key == Head(x.todo)
      exists == key \in Existing
  IN  /\ x.pc = "check" /\ x.todo # <<>>
      /\ Become(s,
           IF exists /\ x.op # "query" THEN [x EXCEPT !.pc = "read"]
           ELSE [x EXCEPT !.todo = Tail(@),
                          !.rows = IF x.op = "files" THEN @
                                   ELSE Append(@, Row(key, exists))])

\* ReadText on it throws if it has gone since, or is a directory.
ReadEntry(s) ==
  LET x == session[s]
      key == Head(x.todo)
  IN  /\ x.pc = "read"
      /\ Become(s, IF key \in DOMAIN files
                   THEN [x EXCEPT !.pc = "check", !.todo = Tail(@),
                                  !.rows = Append(@, Row(key, TRUE))]
                   ELSE [x EXCEPT !.pc = "failed"])

\* A caller who got a full page asks for the next one.
Finish(s) ==
  LET x == session[s]
      full == x.op = "query" /\ Len(x.rows) = x.offset + Limit
  IN  /\ x.pc = "check" /\ x.todo = <<>>
      /\ Become(s, IF full THEN [x EXCEPT !.pc = "list", !.offset = @ + Limit]
                   ELSE [x EXCEPT !.pc = "done"])

Close(s) == session[s].pc \in {"listed", "done", "failed"} /\ Become(s, Idle)

-----------------------------------------------------------------------------
Next ==
  \/ \E path \in Paths[kind] :
       WriteMemory(path) \/ ReplaceArchive(path) \/ \E w \in Writers : MakeDirectory(w, path)
  \/ \E path \in Paths[kind] \cup Folders[kind] :
       DeleteMemory(path) \/ \E w \in Writers : TestDelete(w, path)
  \/ \E w \in Writers :
       Truncate(w) \/ WriteAllText(w) \/ DeleteFile(w) \/ DeleteDirectory(w)
  \/ \E s \in Sessions :
       \/ \E path \in Folders[kind], op \in {"directory", "query"} : Begin(s, path, op)
       \/ \E op \in {"files", "entries"} : Call(s, op)
       \/ \E name \in Names : GetSubdirectory(s, name)
       \/ ListStep(s) \/ Enumerate(s) \/ CheckEntry(s) \/ ReadEntry(s)
       \/ Finish(s) \/ Close(s)

Spec == Init /\ [][Next]_vars

-----------------------------------------------------------------------------
(* Properties.                                                             *)

WriterState ==
  {Idle} \cup [pc : {"made", "opened", "unlinked"}, key : Keys]
         \cup [pc : {"file", "directory"}, key : Keys, todo : SUBSET Keys]

SessionState ==
  [pc : {"list", "enumerate", "listed", "check", "read", "done", "failed"},
   op : {"directory", "files", "entries", "query"},
   dir : [rooted : BOOLEAN, segs : Seq(STRING)],
   entries : Seq(Keys), todo : Seq(Keys), rows : Seq([key : Keys, exists : BOOLEAN]),
   offset : Nat, stable : SUBSET Keys, gone : SUBSET Keys, new : SUBSET Keys]

\* The variables have their types; only a disk has directories, every file
\* on it lies in one, and no name is both; entries are in ordinal order.
TypeOK ==
  /\ kind \in Kinds
  /\ DOMAIN files \subseteq Keys /\ \A k \in DOMAIN files : files[k] \in {"whole", "empty", "torn"}
  /\ dirs \subseteq Keys /\ dirs \cap DOMAIN files = {}
  /\ kind = "physical" => \A k \in Existing \ {Root} : Parent(k) \in dirs
  /\ overlaid \subseteq DOMAIN files
  /\ writer \in [Writers -> WriterState]
  /\ session \in [Sessions -> {Idle} \cup SessionState]
  /\ \A s \in Sessions : session[s] # Idle =>
       \A i, j \in DOMAIN session[s].entries :
         i < j => Precedes(session[s].entries[i], session[s].entries[j])

Returned(x) == {x.rows[i].key : i \in DOMAIN x.rows}

\* A call on a directory throws for one reason only: the entry it was at went
\* away during that call, and not before it, or is a directory on disk
\* (StandardVfsDirectory.GetFilesAsync, EntryContent); a listing throws only if
\* the directory itself went away (PhysicalFileSystemProvider.List).
CallsFailOnlyIfDisturbed ==
  \A s \in Sessions : LET x == session[s] IN
    x.pc = "failed" =>
      IF x.todo = <<>> THEN kind = "physical" /\ x.dir \in x.gone
      ELSE Head(x.todo) \in x.gone \cup dirs

\* What GetFilesAsync and GetEntriesAsync return has all that was there ever
\* since the directory was listed, each once, however stale the directory is.
\* Whoever pages through a query by offset and limit gets everything that is
\* there all the time, unless something before it was removed meanwhile, and
\* gets nothing twice, unless something before it was added.  What is listed as
\* gone was gone (StandardVfsDirectory.GetFilesAsync, GetEntriesAsync;
\* StandardFileSystemVfsSession.QueryAsync).
ListingsMissNothing ==
  \A s \in Sessions : LET x == session[s] IN
    x.pc = "done" =>
      /\ \A k \in x.stable \ Returned(x) :
           x.op = "query" /\ \E l \in x.gone : Precedes(l, k)
      /\ \A i, j \in DOMAIN x.rows : i < j /\ x.rows[i].key = x.rows[j].key =>
           x.op = "query" /\ \E l \in x.new : Precedes(l, x.rows[i].key)
      /\ \A i \in DOMAIN x.rows : x.rows[i].key \in x.stable => x.rows[i].exists

\* A file is empty only while somebody is about to fill it, and holds the
\* whole text of one writer unless two had it open at once
\* (PhysicalFileSystemProvider.WriteText).
FilesAreWhole ==
  \A k \in DOMAIN files :
    /\ files[k] = "empty" => \E w \in Writers : Writing(w, k)
    /\ files[k] = "torn" => k \in overlaid
=============================================================================
