----------------------------- MODULE Directories -----------------------------
(***************************************************************************)
(* DirBuilder::create in recursive mode (fs/dir_builder.rs): a walk down    *)
(* from the whole path to the first parent that can be made, and up again,  *)
(* with one call of the kernel per turn and other tasks in between.  A path *)
(* is the sequence of its components; the empty path stands for the         *)
(* directory it starts from, which exists.  (create("") returns at once.)   *)
(***************************************************************************)
EXTENDS Integers, SequencesExt

CONSTANTS
    Makers,         \* tasks that call create_dir_all
    Paths,          \* the paths they may ask for
    ShortPaths,     \* those whose first component is one byte of a relative path
    OddNames,       \* components that hold a ':' or end with a '.'
    MaxRemovals     \* bound: directories removed by others

VARIABLES
    dirs,           \* the directories there are
    target,         \* path
    path_stack,     \* the lengths of the prefixes still to be made
    tmp_path,       \* the length of the prefix that is tried next
    tmp_mode,       \* the mode it is to be made with
    at,             \* where each maker is
    removals,
    disturbed       \* history: the makers that others were in the way of, or the system

walk == <<path_stack, tmp_path, tmp_mode>>
directoryVars == <<dirs, target, walk, at, removals, disturbed>>

AllDirs == UNION {{SubSeq(p, 1, n) : n \in 0..Len(p)} : p \in Paths}
Stops == {"idle", "make", "check", "ok", "err"}

DirectoryTypeOK ==
    /\ dirs \subseteq AllDirs
    /\ target \in [Makers -> Paths]
    /\ \A m \in Makers : /\ path_stack[m] \in Seq(1..(Len(target[m]) - 1))
                         /\ tmp_path[m] \in 1..Len(target[m])
                         /\ tmp_mode[m] \in {"mode", "0o777"}
    /\ at \in [Makers -> Stops]
    /\ removals \in 0..MaxRemovals
    /\ disturbed \subseteq Makers

DirectoryInit ==
    /\ dirs = {<<>>}
    /\ target \in [Makers -> Paths]
    /\ path_stack = [m \in Makers |-> <<>>]
    /\ tmp_path = [m \in Makers |-> Len(target[m])]
    /\ tmp_mode = [m \in Makers |-> "mode"]
    /\ at = [m \in Makers |-> "idle"]
    /\ removals = 0
    /\ disturbed = {}

-----------------------------------------------------------------------------
Tmp(m) == SubSeq(target[m], 1, tmp_path[m])


\* get_offset: the separator before the last one found.  It looks for it from the end
\* of the component between the two, and gives up at a ':' or a '.' at the end there,
\* and at the second byte of the path, which is the separator after a one-byte component.
GetOffset(m) == (IF path_stack[m] = <<>> THEN Len(target[m]) ELSE Last(path_stack[m])) - 1
HasOffset(m) ==
    /\ GetOffset(m) > (IF target[m] \in ShortPaths THEN 1 ELSE 0)
    /\ target[m][GetOffset(m) + 1] \notin OddNames

Moves(m, where) == at' = [at EXCEPT ![m] = where]

\* The other makers under way on whose path d is.
InTheWayOf(m, d) == {o \in Makers \ {m} : at[o] \in {"make", "check"} /\ IsPrefix(d, target[o])}

\* The next prefix, its mode, and what is left on the stack.
Tries(m, n, mode, stack) ==
    /\ tmp_path' = [tmp_path EXCEPT ![m] = n]
    /\ tmp_mode' = [tmp_mode EXCEPT ![m] = mode]
    /\ path_stack' = [path_stack EXCEPT ![m] = stack]

\* The call, which fails at once when its path is not one of the system (get_os_path).
CreateDirAll(m) ==
    /\ at[m] = "idle"
    /\ \/ Moves(m, "make") /\ UNCHANGED disturbed
       \/ Moves(m, "err") /\ disturbed' = disturbed \union {m}
    /\ UNCHANGED <<dirs, target, walk, removals>>

\* mkdir has made the directory: done, or on to the next longer prefix (after the
\* last of the stack, the path itself).
DirMade(m) ==
    /\ Front(Tmp(m)) \in dirs /\ Tmp(m) \notin dirs
    /\ dirs' = dirs \union {Tmp(m)}
    /\ \/ path_stack[m] = <<>> /\ Moves(m, "ok") /\ UNCHANGED walk
       \/ /\ Len(path_stack[m]) = 1
          /\ Tries(m, Len(target[m]), "mode", <<>>) /\ UNCHANGED at
       \/ /\ Len(path_stack[m]) > 1
          /\ LET stack == Front(path_stack[m]) IN Tries(m, Last(stack), tmp_mode[m], stack)
          /\ UNCHANGED at
    /\ disturbed' = disturbed \union InTheWayOf(m, Tmp(m))

\* The parent is missing: it comes next, or there is no more of the path.
NotFound(m) ==
    /\ Front(Tmp(m)) \notin dirs
    /\ \/ /\ HasOffset(m)
          /\ Tries(m, GetOffset(m), "0o777", Append(path_stack[m], GetOffset(m)))
          /\ UNCHANGED at
       \/ ~HasOffset(m) /\ Moves(m, "err") /\ UNCHANGED walk
    /\ UNCHANGED <<dirs, disturbed>>

\* The directory exists, or the kernel refuses: is the whole path a directory?
Refused(m) ==
    /\ Moves(m, "check")
    /\ \/ Tmp(m) \in dirs /\ UNCHANGED disturbed
       \/ Front(Tmp(m)) \in dirs /\ Tmp(m) \notin dirs /\ disturbed' = disturbed \union {m}
    /\ UNCHANGED <<dirs, walk>>

MakeDir(m) ==
    /\ at[m] = "make"
    /\ DirMade(m) \/ NotFound(m) \/ Refused(m)
    /\ UNCHANGED <<target, removals>>

\* Slip: an existing directory is not looked at with an empty stack in mind.
IsDirRetrying(m) ==
    /\ at[m] = "check"
    /\ \/ target[m] \notin dirs /\ Moves(m, "err")
       \/ target[m] \in dirs /\ Moves(m, "make")
    /\ UNCHANGED <<dirs, target, walk, removals, disturbed>>

\* The guard path.is_dir() and its arm: with prefixes left on the stack the same
\* prefix is tried again.
IsDir(m) ==
    /\ at[m] = "check"
    /\ \/ target[m] \notin dirs /\ Moves(m, "err")
       \/ target[m] \in dirs /\ path_stack[m] = <<>> /\ Moves(m, "ok")
       \/ target[m] \in dirs /\ path_stack[m] # <<>> /\ Moves(m, "make")
    /\ UNCHANGED <<dirs, target, walk, removals, disturbed>>

\* remove_dir by another task: only an empty directory.  It is in the way of a call that
\* has found the whole path and not yet looked at what it is, and of no other.
RemoveDirectory(d) ==
    /\ d \in dirs \ {<<>>} /\ removals < MaxRemovals
    /\ \A e \in dirs : e # <<>> => Front(e) # d
    /\ dirs' = dirs \ {d}
    /\ removals' = removals + 1
    /\ disturbed' = disturbed \union {o \in Makers : at[o] = "check" /\ target[o] = d}
    /\ UNCHANGED <<target, walk, at>>

DirectoryNext ==
    \/ \E m \in Makers : CreateDirAll(m) \/ MakeDir(m) \/ IsDir(m)
    \/ \E d \in dirs : RemoveDirectory(d)

-----------------------------------------------------------------------------
\* When create() returns Ok, the whole path is a directory at that moment,
\* whatever others made or removed while the call walked along it.
OkMeansCreated == [][\A m \in Makers : at[m] # "ok" /\ at'[m] = "ok" => target[m] \in dirs']_directoryVars

\* The prefix that is tried is the shortest of those that are known to be missing, none
\* between it and the path is left out, and the mode that the caller asked for is for
\* the path alone, also when a parent is removed on the way up and searched for again.
NoneIsLeftOut ==
    \A m \in Makers :
       /\ path_stack[m] = [i \in DOMAIN path_stack[m] |-> Len(target[m]) - i]
       /\ tmp_path[m] = Len(target[m]) - Len(path_stack[m])
       /\ tmp_mode[m] = "mode" <=> tmp_path[m] = Len(target[m])

\* The paths that get_offset cannot take apart.
Indivisible(p) == p \in ShortPaths \/ \E i \in 2..Len(p) : p[i] \in OddNames

\* create() in recursive mode fails only if the system refused, if another call made a
\* directory of the path meanwhile, if the path was removed while the call looked whether
\* it is a directory, or if get_offset cannot take the path apart.  A parent that is
\* removed during the walk does not make it fail: the missing parts are found again.
FailsOnlyIfDisturbed ==
    \A m \in Makers : at[m] = "err" => m \in disturbed \/ Indivisible(target[m])

\* A call that nobody is in the way of returns, also when parents are removed under it.
\* (One that is disturbed need not: when others have made the whole path, the loop tries
\* to make an existing parent for as long as the path is there.)
CreateReturns ==
    \A m \in Makers : at[m] = "make" ~> (at[m] \in {"ok", "err"} \/ m \in disturbed)

=============================================================================
