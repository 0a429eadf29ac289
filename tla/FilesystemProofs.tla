------------------------- MODULE FilesystemProofs -------------------------
(***************************************************************************)
(* Proofs about filesystem_head and the tree that moves with it, for every *)
(* set of names and data and for every bound.                              *)
(***************************************************************************)
EXTENDS TreeFilesystem, ListLemmas

----------------------------------------------------------------------------
(***************************************************************************)
(* Paths.                                                                  *)
(***************************************************************************)
LEMMA PathIsShortSeq ==
  ASSUME NEW p
  PROVE  p \in Paths <=> p \in Seq(Names) /\ Len(p) <= MaxDepth
<1>1. ASSUME p \in Paths PROVE p \in Seq(Names) /\ Len(p) <= MaxDepth
  <2>1. PICK m \in 0 .. MaxDepth : p \in [1 .. m -> Names]
    BY <1>1 DEF Paths, BoundedSeq, SeqOf
  <2> QED BY <2>1, FilesystemAssumption
<1>2. ASSUME p \in Seq(Names), Len(p) <= MaxDepth PROVE p \in Paths
  <2>1. Len(p) \in 0 .. MaxDepth /\ p \in [1 .. Len(p) -> Names]
    BY <1>2, LenProperties, FilesystemAssumption
  <2> QED BY <2>1 DEF Paths, BoundedSeq, SeqOf
<1> QED BY <1>1, <1>2

(***************************************************************************)
(* The parent of a path is a path, and another one.                        *)
(***************************************************************************)
LEMMA ParentIsPath ==
  ASSUME NEW p \in Paths, p # <<>>
  PROVE  Parent(p) \in Paths /\ Parent(p) # p
<1>1. p \in Seq(Names) /\ Len(p) <= MaxDepth
  BY PathIsShortSeq
<1>2. /\ Len(p) \in Nat \ {0} /\ Front(p) \in Seq(Names)
      /\ Len(Front(p)) = Len(p) - 1
  BY <1>1, FrontList
<1> QED BY <1>1, <1>2, PathIsShortSeq, FilesystemAssumption DEF Parent

LEMMA RootIsPath == <<>> \in Paths
<1> DEFINE e == <<>>
<1>1. e \in Seq(Names) /\ Len(e) <= MaxDepth
  BY FilesystemAssumption
<1> HIDE DEF e
<1>2. e \in Paths
  BY <1>1, PathIsShortSeq
<1> QED BY <1>2 DEF e

(***************************************************************************)
(* filesystem_head: the tree stays a tree and the process in a directory.  *)
(***************************************************************************)
LEMMA FailTypes ==
  ASSUME TypeOK, NEW code, fail(code)
  PROVE  /\ debug_class_return_code' \in {NotSet} \cup LegalCodes(5)
         /\ process' \in ProcessStates
         /\ process' = process \/ process' = "aborted"
BY DEF TypeOK, fail, setReturnCode, filesystem_local_errors, ProcessStates

LEMMA ProcessInDirectory ==
  ASSUME TypeOK
  PROVE  /\ working_directory \in Paths /\ working_directory \in Seq(Names)
         /\ tree[working_directory] = Directory
<1>1. working_directory \in Paths /\ tree[working_directory] = Directory
  BY FilesystemAssumption DEF TypeOK, IsDirectory, Node
<1> QED BY <1>1, PathIsShortSeq

(***************************************************************************)
(* A step that leaves the tree alone.                                      *)
(***************************************************************************)
LEMMA TreeKept ==
  ASSUME TypeOK, UNCHANGED tree, IsDirectory(working_directory'),
         filesystem_current_directory' \in Seq(Names),
         filesystem_directory_known' \in BOOLEAN,
         filesystem_status_structure' \in FileTypes,
         result' \in BOOLEAN,
         debug_class_return_code' \in {NotSet} \cup LegalCodes(5),
         process' \in ProcessStates
  PROVE  TypeOK'
BY DEF TypeOK, WellFormed, IsDirectory, Node

LEMMA StateKept ==
  ASSUME TypeOK, UNCHANGED stateVars,
         debug_class_return_code' \in {NotSet} \cup LegalCodes(5),
         process' \in ProcessStates
  PROVE  TypeOK'
BY TreeKept DEF TypeOK, stateVars, headVars, osVars

LEMMA AbortType ==
  ASSUME TypeOK, Abort \/ Undefined
  PROVE  TypeOK'
BY StateKept DEF TypeOK, Abort, Undefined, ProcessStates

LEMMA ReportType ==
  ASSUME TypeOK, NEW code, fail(code), UNCHANGED stateVars
  PROVE  TypeOK'
BY StateKept, FailTypes

(***************************************************************************)
(* A node made where none was, in a directory; or one removed that has     *)
(* nothing below it and that the process is not in.                        *)
(***************************************************************************)
Makes(path, node) ==
  /\ node = Directory /\ tree[path] = Missing
  /\ tree[Parent(path)] = Directory

Removes(path, node) ==
  /\ node = Missing
  /\ \A p \in Paths \ {<<>>} : Parent(p) = path => tree[p] = Missing

LEMMA TreeChanges ==
  ASSUME TypeOK, NEW path \in Paths, NEW node,
         tree' = [tree EXCEPT ![path] = node],
         path # <<>>, path # working_directory,
         Makes(path, node) \/ Removes(path, node),
         result' \in BOOLEAN,
         UNCHANGED <<headVars, working_directory, debugVars,
                     filesystem_status_structure>>
  PROVE  TypeOK'
<1>1. tree \in [Paths -> F!Nodes] /\ WellFormed(tree) /\ Missing # Directory
  BY FilesystemAssumption DEF TypeOK
<1>2. node \in F!Nodes
  BY DEF Makes, Removes, F!Nodes
<1>3. tree' \in [Paths -> F!Nodes]
  BY <1>1, <1>2
<1>4. tree'[<<>>] = Directory
  BY <1>1, RootIsPath DEF WellFormed
<1>5. ASSUME NEW p \in Paths \ {<<>>}, tree'[p] # Missing
      PROVE  tree'[Parent(p)] = Directory
  <2>1. Parent(p) \in Paths /\ Parent(p) # p
    BY ParentIsPath
  <2>2. CASE p = path
    <3>1. tree[Parent(p)] = Directory
      BY <1>1, <1>5, <2>2 DEF Makes, Removes
    <3> QED BY <1>1, <2>1, <2>2, <3>1
  <2>3. CASE p # path
    <3>1. tree[p] # Missing
      BY <1>1, <1>5, <2>3
    <3>2. tree[Parent(p)] = Directory
      BY <1>1, <3>1 DEF WellFormed
    <3>3. Parent(p) # path
      BY <1>1, <3>1, <3>2 DEF Makes, Removes
    <3> QED BY <1>1, <2>1, <3>2, <3>3
  <2> QED BY <2>2, <2>3
<1>6. WellFormed(tree)'
  BY <1>4, <1>5 DEF WellFormed
<1>7. IsDirectory(working_directory)'
  BY <1>1, ProcessInDirectory DEF IsDirectory, Node
<1> QED BY <1>3, <1>6, <1>7 DEF TypeOK, headVars, debugVars

(***************************************************************************)
(* createFile opens for reading, writes nothing and leaves the node as it  *)
(* is.                                                                     *)
(***************************************************************************)
LEMMA CreateFileWritesNothing ==
  ASSUME TypeOK, NEW n, NEW content, NEW b \in BOOLEAN, createFile(n, content, b)
  PROVE  /\ process = "running"
         /\ \/ Abort
            \/ /\ tree' = tree
               /\ result' = TRUE
               /\ UNCHANGED <<headVars, working_directory, debugVars,
                              filesystem_status_structure>>
<1> DEFINE path == Append(working_directory, n)
           mode == createFileMode(b)
           told == F!file_descriptor(path, mode)
           node == Node(path)
           object == F!getFileDescriptor(told, node)
           written == F!write_file(object, content)
<1>1. mode \in {"in", "binary"} /\ ~ F!is_write(mode)
  BY DEF createFileMode, F!is_write
<1> HIDE DEF mode
<1>2. /\ told.pending = <<>> /\ told.flags = mode /\ told.file_mode = mode
      /\ told.opened = Closed
      /\ told = [file_name |-> path, file_mode |-> mode, opened |-> Closed,
                 flags |-> mode, fail |-> FALSE, pending |-> <<>>]
  BY DEF F!file_descriptor
<1>3. F!NodeAfterOpen(told, node) = node
  <2> HIDE DEF told
  <2> QED BY <1>1, <1>2 DEF F!NodeAfterOpen, F!OpenedNode
<1>4. object.pending = <<>> /\ object.flags = mode /\ DOMAIN object = DOMAIN told
  <2> HIDE DEF node, path
  <2> QED BY <1>2 DEF F!getFileDescriptor
<1>5. written = [object EXCEPT !.fail = TRUE]
  <2> HIDE DEF object
  <2> QED BY <1>1, <1>4 DEF F!write_file
<1>6. written.pending = <<>>
  <2> HIDE DEF object, written
  <2> QED BY <1>2, <1>4, <1>5
<1>7. CASE Abort
  BY <1>7 DEF createFile
<1>8. CASE ~ Abort
  <2>1. /\ path \in Paths
        /\ tree' = [tree EXCEPT ![path] =
                      IF written.pending = <<>> THEN F!NodeAfterOpen(told, node)
                        ELSE F!Flushed(written, F!NodeAfterOpen(told, node))]
        /\ result' = TRUE
        /\ UNCHANGED <<headVars, working_directory, debugVars,
                       filesystem_status_structure>>
    BY <1>8 DEF createFile, mode
  <2>2. tree' = [tree EXCEPT ![path] = node]
    <3> HIDE DEF path, written, told, node
    <3> QED BY <1>3, <1>6, <2>1
  <2>3. node = tree[path]
    BY <2>1 DEF Node
  <2>4. tree' = tree
    <3> HIDE DEF path, node
    <3> QED BY <2>2, <2>3 DEF TypeOK
  <2> QED BY <2>1, <2>4 DEF createFile
<1> QED BY <1>7, <1>8

(***************************************************************************)
(* The operations.  MovedTo is a directory whether chdir succeeds or not.  *)
(***************************************************************************)
LEMMA MovedToDirectory ==
  ASSUME TypeOK, NEW path
  PROVE  IsDirectory(MovedTo(path))
BY DEF TypeOK, MovedTo

LEMMA ChangeType ==
  ASSUME TypeOK, NEW directory, NEW recorded \in Seq(Names), Change(directory, recorded)
  PROVE  TypeOK'
<1>1. /\ result' \in BOOLEAN
      /\ filesystem_current_directory' \in Seq(Names)
      /\ UNCHANGED <<tree, filesystem_directory_known, filesystem_status_structure>>
  BY DEF Change, filesystem_change_directory_function
<1>2. IsDirectory(working_directory')
  BY MovedToDirectory DEF Change
<1>3. /\ debug_class_return_code' \in {NotSet} \cup LegalCodes(5)
      /\ process' \in ProcessStates
  BY FailTypes DEF Change, TypeOK, debugVars
<1> QED BY <1>1, <1>2, <1>3, TreeKept DEF TypeOK

LEMMA ChangeDirectoryType ==
  ASSUME TypeOK, NEW directory \in Seq(Names), changeDirectory(directory)
  PROVE  TypeOK'
<1>1. CASE Abort
  BY <1>1, AbortType
<1>2. CASE ~ Abort
  <2>1. CompleteDirectory(directory) \in Seq(Names)
    BY ConcatProperties DEF TypeOK, CompleteDirectory
  <2>2. PICK recorded \in Seq(Names) : Change(directory, recorded)
    BY <1>2, <2>1 DEF changeDirectory, TypeOK
  <2> QED BY <2>2, ChangeType
<1> QED BY <1>1, <1>2

LEMMA StepBackType ==
  ASSUME TypeOK, NEW n \in Int, stepBackDirectory(n)
  PROVE  TypeOK'
<1> DEFINE left == Len(filesystem_current_directory) - n
           parent == SubSeq(filesystem_current_directory, 1, left)
<1>1. CASE Abort \/ Undefined
  BY <1>1, AbortType
<1>2. CASE result' = FALSE /\ UNCHANGED <<headVars, osVars, filesystem_status_structure,
                                          debugVars>>
  BY <1>2, TreeKept DEF TypeOK, headVars, osVars, debugVars
<1>3. CASE n >= 0 /\ left >= 0 /\ Change(parent, parent)
  <2>1. /\ Len(filesystem_current_directory) \in Nat
        /\ \A i \in 1 .. Len(filesystem_current_directory) :
             filesystem_current_directory[i] \in Names
    BY LenProperties, ElementOfSeq DEF TypeOK
  <2>2. left \in Int /\ \A i \in 1 .. left : filesystem_current_directory[i] \in Names
    BY <1>3, <2>1
  <2> HIDE DEF left
  <2>3. parent \in Seq(Names)
    BY <2>2, SubSeqProperties
  <2> HIDE DEF parent
  <2> QED BY <1>3, <2>3, ChangeType
<1>4. Len(filesystem_current_directory) \in Nat
  BY LenProperties DEF TypeOK
<1>5. n >= 0 \/ n < 0
  OBVIOUS
<1>6. left >= 0 \/ left < 0
  BY <1>4
<1>7. CASE n < 0
  BY <1>1, <1>2, <1>7 DEF stepBackDirectory
<1>8. CASE n >= 0 /\ left < 0
  <2>1. ~ (n < 0)
    BY <1>8
  <2> QED BY <1>1, <1>8, <2>1 DEF stepBackDirectory
<1>9. CASE n >= 0 /\ left >= 0
  <2>1. ~ (n < 0) /\ ~ (left < 0)
    BY <1>4, <1>9
  <2>2. Abort \/ Change(parent, parent)
    BY <2>1 DEF stepBackDirectory
  <2> HIDE DEF left, parent
  <2> QED BY <1>1, <1>3, <1>9, <2>2
<1> QED BY <1>5, <1>6, <1>7, <1>8, <1>9

LEMMA ExistsType ==
  ASSUME TypeOK, NEW path, NEW type, Exists(path, type)
  PROVE  TypeOK'
<1>1. filesystem_status_structure' \in FileTypes
  BY DEF Exists, Stat, TypeOf, FileTypes, TypeOK
<1>2. result' \in BOOLEAN
  BY DEF Exists
<1> QED BY <1>1, <1>2, TreeKept DEF Exists, TypeOK, headVars, osVars, debugVars

LEMMA ListType ==
  ASSUME TypeOK, NEW directory, listCurrentDirectory(directory)
  PROVE  TypeOK'
<1> DEFINE path == working_directory \o directory
<1>1. CASE Abort \/ (fail(cannot_open_directory) /\ UNCHANGED stateVars)
  BY <1>1, AbortType, ReportType
<1>2. CASE /\ \E last \in Entries(path) \cup {path} :
                filesystem_status_structure' = TypeOf(Node(last))
           /\ result' = TRUE
           /\ UNCHANGED <<headVars, osVars, debugVars>>
  <2>1. filesystem_status_structure' \in FileTypes
    BY <1>2 DEF TypeOf, FileTypes
  <2> QED BY <1>2, <2>1, TreeKept DEF TypeOK, headVars, osVars, debugVars
<1> QED BY <1>1, <1>2 DEF listCurrentDirectory

LEMMA SetRootType ==
  ASSUME TypeOK, NEW root \in Paths, NEW delimeter \in BOOLEAN, setRoot(root, delimeter)
  PROVE  TypeOK'
<1>1. /\ filesystem_current_directory' \in Seq(Names)
      /\ filesystem_directory_known' \in BOOLEAN
  BY PathIsShortSeq DEF setRoot
<1>2. result' \in BOOLEAN /\ IsDirectory(working_directory')
  BY MovedToDirectory DEF setRoot, filesystem_change_directory_function, TypeOK
<1> QED BY <1>1, <1>2, TreeKept DEF setRoot, TypeOK, debugVars

LEMMA RectifyType ==
  ASSUME TypeOK, NEW directory \in Paths, manuallyRectifyDirectory(directory)
  PROVE  TypeOK'
<1>1. filesystem_current_directory' \in Seq(Names)
  BY PathIsShortSeq DEF manuallyRectifyDirectory
<1> QED BY <1>1, TreeKept DEF manuallyRectifyDirectory, TypeOK, osVars, debugVars

(***************************************************************************)
(* What is made or removed is never the root nor where the process is.     *)
(***************************************************************************)
LEMMA MakeType ==
  ASSUME TypeOK, NEW directory \in Paths, makeDirectory(directory)
  PROVE  TypeOK'
<1> DEFINE path == working_directory \o directory
           succeeds == path \in Paths /\ Node(path) = Missing /\ IsDirectory(Parent(path))
<1>1. CASE Abort \/ (fail(cannot_create_directory) /\ UNCHANGED stateVars)
  BY <1>1, AbortType, ReportType
<1>2. CASE /\ succeeds
           /\ tree' = [tree EXCEPT ![path] = Directory]
           /\ result' = TRUE
           /\ UNCHANGED <<headVars, working_directory, debugVars,
                          filesystem_status_structure>>
  <2>1. path \in Paths /\ tree[path] = Missing /\ IsDirectory(Parent(path))
    BY <1>2 DEF Node
  <2>2. path # <<>> /\ path # working_directory
    BY <2>1, ProcessInDirectory, FilesystemAssumption DEF TypeOK, WellFormed
  <2> HIDE DEF path
  <2>3. tree[Parent(path)] = Directory
    BY <2>1, FilesystemAssumption DEF IsDirectory, Node
  <2>4. Makes(path, Directory)
    BY <2>1, <2>3 DEF Makes
  <2> QED BY <1>2, <2>1, <2>2, <2>4, TreeChanges
<1> QED BY <1>1, <1>2 DEF makeDirectory, Perform

LEMMA RemoveType ==
  ASSUME TypeOK, NEW directory \in Paths, removeDirectory(directory)
  PROVE  TypeOK'
<1> DEFINE path == working_directory \o directory
           succeeds == directory # <<>> /\ IsDirectory(path) /\ Entries(path) = {}
<1>1. CASE Abort \/ (fail(cannot_remove_directory) /\ UNCHANGED stateVars)
  BY <1>1, AbortType, ReportType
<1>2. CASE /\ succeeds
           /\ tree' = [tree EXCEPT ![path] = Missing]
           /\ result' = TRUE
           /\ UNCHANGED <<headVars, working_directory, debugVars,
                          filesystem_status_structure>>
  <2>1. path \in Paths
    BY <1>2, FilesystemAssumption DEF IsDirectory, Node
  <2>2. path # <<>> /\ path # working_directory
    <3>1. /\ working_directory \in Seq(Names) /\ directory \in Seq(Names)
          /\ directory # <<>>
      BY <1>2, ProcessInDirectory, PathIsShortSeq
    <3> QED BY <3>1, ConcatEqualIffEmpty
  <2>3. Removes(path, Missing)
    <3> HIDE DEF path
    <3> QED BY <1>2 DEF Removes, Entries, Node
  <2> HIDE DEF path
  <2> QED BY <1>2, <2>1, <2>2, <2>3, TreeChanges
<1> QED BY <1>1, <1>2 DEF removeDirectory, Perform

LEMMA DeleteType ==
  ASSUME TypeOK, NEW n \in Names, deleteFile(n)
  PROVE  TypeOK'
<1> DEFINE path == Append(working_directory, n)
           is_file == Node(path) \notin {Missing, Directory}
<1>1. CASE Abort
  BY <1>1, AbortType
<1>2. CASE ~ Abort
  <2>1. /\ tree' = IF is_file THEN [tree EXCEPT ![path] = Missing] ELSE tree
        /\ result' = is_file
        /\ UNCHANGED <<headVars, working_directory, debugVars,
                       filesystem_status_structure>>
    BY <1>2 DEF deleteFile
  <2>2. CASE ~ is_file
    BY <2>1, <2>2, TreeKept DEF TypeOK, headVars, debugVars
  <2>3. CASE is_file
    <3>1. path \in Paths /\ tree[path] # Missing /\ tree[path] # Directory
      BY <2>3 DEF Node
    <3>2. path # <<>> /\ path # working_directory
      BY <3>1, ProcessInDirectory DEF TypeOK, WellFormed
    <3> HIDE DEF path
    <3>3. Removes(path, Missing)
      BY <3>1 DEF Removes, TypeOK, WellFormed
    <3> QED BY <2>1, <2>3, <3>1, <3>2, <3>3, TreeChanges
  <2> QED BY <2>2, <2>3
<1> QED BY <1>1, <1>2

LEMMA CreateType ==
  ASSUME TypeOK, NEW n, NEW content, NEW b \in BOOLEAN, createFile(n, content, b)
  PROVE  TypeOK'
<1>1. CASE Abort
  BY <1>1, AbortType
<1>2. CASE ~ Abort
  BY <1>2, CreateFileWritesNothing, TreeKept DEF TypeOK, headVars, debugVars
<1> QED BY <1>1, <1>2

LEMMA GetFileType ==
  ASSUME TypeOK, NEW n, getFile(n)
  PROVE  TypeOK'
<1>1. CASE Abort
  BY <1>1, AbortType
<1>2. CASE ~ Abort
  <2>1. result' = TRUE /\ UNCHANGED <<headVars, osVars, debugVars,
                                      filesystem_status_structure>>
    BY <1>2 DEF getFile
  <2> QED BY <2>1, TreeKept DEF TypeOK, headVars, osVars, debugVars
<1> QED BY <1>1, <1>2

LEMMA NextType ==
  ASSUME TypeOK, [Next]_vars
  PROVE  TypeOK'
<1>1. CASE UNCHANGED vars
  BY <1>1, StateKept DEF vars, TypeOK, debugVars
<1>2. ASSUME NEW n \in Names, stepForwardDirectory(n) PROVE TypeOK'
  <2>1. <<n>> \in Seq(Names)
    OBVIOUS
  <2> QED BY <1>2, <2>1, ChangeDirectoryType DEF stepForwardDirectory
<1>3. ASSUME NEW p \in Paths, changeDirectory(p) PROVE TypeOK'
  BY <1>3, PathIsShortSeq, ChangeDirectoryType
<1>4. ASSUME NEW n \in -1 .. MaxRecorded, stepBackDirectory(n) PROVE TypeOK'
  BY <1>4, StepBackType, FilesystemAssumption
<1>5. ASSUME NEW p \in Paths, fileExists(p) \/ directoryExists(p) PROVE TypeOK'
  BY <1>5, ExistsType DEF fileExists, directoryExists
<1> QED BY <1>1, <1>2, <1>3, <1>4, <1>5, ListType, SetRootType, RectifyType, MakeType,
        RemoveType, DeleteType, CreateType, GetFileType DEF Next

LEMMA InitType == Init => TypeOK
<1> SUFFICES ASSUME Init PROVE TypeOK
  OBVIOUS
<1>1. tree \in [Paths -> F!Nodes] /\ WellFormed(tree)
  <2> DEFINE first == {Missing, Directory} \cup {<<c>> : c \in Chunks}
  <2>1. \A c \in Chunks : <<c>> \in Seq(Chunks)
    OBVIOUS
  <2>2. first \subseteq F!Nodes
    BY <2>1 DEF F!Nodes
  <2>3. tree \in [Paths -> first] /\ WellFormed(tree)
    BY DEF Init
  <2> HIDE DEF first
  <2> QED BY <2>2, <2>3
<1>2. IsDirectory(working_directory) /\ filesystem_current_directory \in Seq(Names)
  BY PathIsShortSeq DEF Init
<1> QED BY <1>1, <1>2 DEF Init, InitDebug, TypeOK, FileTypes, ProcessStates

(***************************************************************************)
(* Whatever directories and files filesystem_head makes and removes, every *)
(* node of the tree stays in a directory and the process never stands in a *)
(* directory that was removed from under it.                               *)
(***************************************************************************)
THEOREM TypeCorrect == Spec => []TypeOK
<1>1. TypeOK /\ [Next]_vars => TypeOK'
  BY NextType
<1> QED BY <1>1, InitType, PTL DEF Spec

----------------------------------------------------------------------------
(***************************************************************************)
(* The tree of nodes.  The chain of nodes holds together, and every node   *)
(* that was ever added is a directory.                                     *)
(***************************************************************************)
Chain(children, at) ==
  /\ children \in [1 .. MaxLevels -> BoundedSeq(BOOLEAN, MaxChildren)]
  /\ at \in 1 .. MaxLevels
  /\ \A k \in 1 .. at - 1 : children[k] # <<>>
  /\ \A k \in 1 .. MaxLevels : \A i \in 1 .. Len(children[k]) : children[k][i] = TRUE

TreeIInv ==
  /\ TypeOK
  /\ internal_offset_armed \in BOOLEAN
  /\ internal_filesystem_offset \in Paths
  /\ internal_host_identifier \in Hosts \cup {Unnamed}
  /\ internal_foreign_nodes \in [Hosts -> Paths \cup {Missing}]
  /\ Chain(internal_children, internal_heap_pointer)
  /\ head_is_directory \in BOOLEAN
  /\ answer \in BOOLEAN

LEMMA FlagsAreShortSeq ==
  ASSUME NEW f
  PROVE  f \in BoundedSeq(BOOLEAN, MaxChildren) <=>
           f \in Seq(BOOLEAN) /\ Len(f) <= MaxChildren
<1>1. ASSUME f \in BoundedSeq(BOOLEAN, MaxChildren)
      PROVE  f \in Seq(BOOLEAN) /\ Len(f) <= MaxChildren
  <2>1. PICK m \in 0 .. MaxChildren : f \in [1 .. m -> BOOLEAN]
    BY <1>1 DEF BoundedSeq, SeqOf
  <2> QED BY <2>1, TreeAssumption
<1>2. ASSUME f \in Seq(BOOLEAN), Len(f) <= MaxChildren
      PROVE  f \in BoundedSeq(BOOLEAN, MaxChildren)
  <2>1. Len(f) \in 0 .. MaxChildren /\ f \in [1 .. Len(f) -> BOOLEAN]
    BY <1>2, LenProperties, TreeAssumption
  <2> QED BY <2>1 DEF BoundedSeq, SeqOf
<1> QED BY <1>1, <1>2

(***************************************************************************)
(* Nodes added to the current one, the step down to its first child, and   *)
(* the head cleared.                                                       *)
(***************************************************************************)
LEMMA ChainAdds ==
  ASSUME NEW ch, NEW at, Chain(ch, at), NEW m \in Nat, NEW flags \in [1 .. m -> BOOLEAN],
         \A k \in 1 .. m : flags[k] = TRUE, Len(ch[at]) + m <= MaxChildren
  PROVE  Chain([ch EXCEPT ![at] = ch[at] \o flags], at)
<1> DEFINE old == ch[at]
           new == old \o flags
           B == BOOLEAN
<1>1. /\ ch \in [1 .. MaxLevels -> BoundedSeq(BOOLEAN, MaxChildren)]
      /\ at \in 1 .. MaxLevels
      /\ \A k \in 1 .. at - 1 : ch[k] # <<>>
      /\ \A k \in 1 .. MaxLevels : \A i \in 1 .. Len(ch[k]) : ch[k][i] = TRUE
  BY DEF Chain
<1>2. old \in Seq(BOOLEAN) /\ Len(old) \in Nat
  BY <1>1, FlagsAreShortSeq, LenProperties
<1>3. flags \in Seq(BOOLEAN) /\ Len(flags) = m
  OBVIOUS
<1>4. old \in Seq(B) /\ flags \in Seq(B)
  BY <1>2, <1>3
<1> HIDE DEF B, old
<1>5. /\ new \in Seq(B) /\ Len(new) = Len(old) + m
      /\ \A i \in 1 .. Len(old) + m : new[i] =
           IF i <= Len(old) THEN old[i] ELSE flags[i - Len(old)]
  <2>1. /\ new \in Seq(B) /\ Len(new) = Len(old) + Len(flags)
        /\ \A i \in 1 .. Len(old) + Len(flags) : new[i] =
             IF i <= Len(old) THEN old[i] ELSE flags[i - Len(old)]
    BY <1>4, ConcatProperties
  <2> HIDE DEF new
  <2> QED BY <1>3, <2>1
<1> HIDE DEF new
<1>6. new \in Seq(BOOLEAN)
  BY <1>5 DEF B
<1>7. new \in BoundedSeq(BOOLEAN, MaxChildren)
  BY <1>5, <1>6, FlagsAreShortSeq DEF old
<1>8. ASSUME NEW i \in 1 .. Len(new) PROVE new[i] = TRUE
  <2>1. i \in 1 .. Len(old) + m
    BY <1>5
  <2>2. CASE i <= Len(old)
    <3>1. i \in 1 .. Len(old)
      BY <1>2, <2>1, <2>2
    <3>2. old[i] = TRUE
      BY <1>1, <3>1 DEF old
    <3> QED BY <1>5, <2>1, <2>2, <3>2
  <2>3. CASE ~ (i <= Len(old))
    <3>1. i - Len(old) \in 1 .. m
      BY <1>2, <2>1, <2>3
    <3>2. new[i] = flags[i - Len(old)]
      BY <1>5, <2>1, <2>3
    <3> QED BY <3>1, <3>2
  <2> QED BY <2>2, <2>3
<1>9. [ch EXCEPT ![at] = ch[at] \o flags] = [ch EXCEPT ![at] = new]
  BY DEF new, old
<1>10. Chain([ch EXCEPT ![at] = new], at)
  <2> DEFINE res == [ch EXCEPT ![at] = new]
  <2>1. /\ res \in [1 .. MaxLevels -> BoundedSeq(BOOLEAN, MaxChildren)]
        /\ res[at] = new
        /\ \A k \in (1 .. MaxLevels) \ {at} : res[k] = ch[k]
    BY <1>1, <1>7
  <2>2. \A k \in 1 .. at - 1 : k \in (1 .. MaxLevels) \ {at}
    BY <1>1, TreeAssumption
  <2> HIDE DEF res
  <2>3. \A k \in 1 .. at - 1 : res[k] # <<>>
    BY <1>1, <2>1, <2>2
  <2>4. \A k \in 1 .. MaxLevels : \A i \in 1 .. Len(res[k]) : res[k][i] = TRUE
    BY <1>1, <1>8, <2>1
  <2>5. Chain(res, at)
    BY <1>1, <2>1, <2>3, <2>4 DEF Chain
  <2> QED BY <2>5 DEF res
<1> QED BY <1>9, <1>10

LEMMA ChainGoesDown ==
  ASSUME NEW ch, NEW at, Chain(ch, at), ch[at] # <<>>, at + 1 <= MaxLevels
  PROVE  Chain(ch, at + 1)
BY TreeAssumption DEF Chain

LEMMA ChainCleared ==
  Chain([k \in 1 .. MaxLevels |-> <<>>], 1)
<1> DEFINE e == <<>>
<1>1. e \in BoundedSeq(BOOLEAN, MaxChildren) /\ Len(e) = 0
  <2>1. e \in Seq(BOOLEAN) /\ Len(e) <= MaxChildren /\ Len(e) = 0
    BY TreeAssumption
  <2> HIDE DEF e
  <2> QED BY <2>1, FlagsAreShortSeq
<1> HIDE DEF e
<1>2. Chain([k \in 1 .. MaxLevels |-> e], 1)
  BY <1>1, TreeAssumption DEF Chain
<1> QED BY <1>2 DEF e

(***************************************************************************)
(* pathChangeInline moves as long as the paths are directories.            *)
(***************************************************************************)
LEMMA MovesFacts ==
  ASSUME NEW S, NEW tokens \in Seq(S)
  PROVE  /\ Moves(tokens) \in 0 .. Len(tokens)
         /\ \A k \in 1 .. Moves(tokens) : IsDirectory(CompleteDirectory(tokens[k]))
         /\ Moves(tokens) < Len(tokens) =>
              ~ IsDirectory(CompleteDirectory(tokens[Moves(tokens) + 1]))
<1> DEFINE stops(k) == filesystem_change_directory_function(CompleteDirectory(tokens[k]))
           T == {k \in Nat : 1 <= k /\ k <= Len(tokens) /\ stops(k)}
           good(n) == /\ \A k \in 1 .. n : ~ stops(k)
                      /\ n < Len(tokens) => stops(n + 1)
<1>1. Len(tokens) \in Nat
  BY LenProperties
<1>2. \E n \in 0 .. Len(tokens) : good(n)
  <2> HIDE DEF stops
  <2>1. CASE T = {}
    <3>1. good(Len(tokens))
      BY <1>1, <2>1
    <3>2. Len(tokens) \in 0 .. Len(tokens)
      BY <1>1
    <3> HIDE DEF good
    <3> QED BY <3>1, <3>2
  <2>2. CASE T # {}
    <3>1. PICK m \in T : \A k \in T : m <= k
      <4>1. T \in SUBSET Nat
        OBVIOUS
      <4> HIDE DEF T
      <4> QED BY <2>2, <4>1, MinExists
    <3>2. m - 1 \in 0 .. Len(tokens) /\ stops((m - 1) + 1)
      BY <1>1, <3>1
    <3>3. ASSUME NEW k \in 1 .. m - 1 PROVE ~ stops(k)
      <4>1. k \in Nat /\ 1 <= k /\ k <= Len(tokens) /\ ~ (m <= k)
        BY <1>1, <3>1
      <4>2. k \notin T
        BY <3>1, <4>1
      <4> QED BY <4>1, <4>2
    <3>4. good(m - 1)
      BY <3>2, <3>3
    <3> HIDE DEF good
    <3> QED BY <3>2, <3>4
  <2> QED BY <2>1, <2>2
<1>3. Moves(tokens) = CHOOSE n \in 0 .. Len(tokens) : good(n)
  BY DEF Moves
<1>4. Moves(tokens) \in 0 .. Len(tokens) /\ good(Moves(tokens))
  <2> HIDE DEF good
  <2> QED BY <1>2, <1>3
<1> QED BY <1>4 DEF filesystem_change_directory_function

(***************************************************************************)
(* A step of the reader that leaves the object as it is.                   *)
(***************************************************************************)
LEMMA ObjectKept ==
  ASSUME TreeIInv, TypeOK', UNCHANGED <<offsetVars, lookupVars, nodeVars>>,
         answer' \in BOOLEAN
  PROVE  TreeIInv'
<1>1. Chain(internal_children, internal_heap_pointer)'
  BY DEF TreeIInv, nodeVars, Chain
<1> QED BY <1>1 DEF TreeIInv, offsetVars, lookupVars, nodeVars

LEMMA UnchangedType ==
  ASSUME TypeOK, UNCHANGED vars
  PROVE  TypeOK'
BY StateKept DEF vars, TypeOK, debugVars

LEMMA TreeEnds ==
  ASSUME TreeIInv, Abort \/ Undefined, UNCHANGED objectVars
  PROVE  TreeIInv'
<1>1. TypeOK'
  BY AbortType DEF TreeIInv
<1> QED BY <1>1, ObjectKept DEF objectVars, TreeIInv

LEMMA OffsetStep ==
  ASSUME TreeIInv, NEW offset \in Paths, NEW delimeter \in BOOLEAN,
         setFilesystemOffset(offset, delimeter)
  PROVE  TreeIInv'
<1>1. TypeOK'
  BY SetRootType DEF TreeIInv, setFilesystemOffset
<1>2. /\ internal_offset_armed' = result' /\ internal_filesystem_offset' = offset
      /\ answer' = result' /\ UNCHANGED <<lookupVars, nodeVars, tree>>
  BY DEF setFilesystemOffset, setRoot, ArmedBy
<1>3. result' \in BOOLEAN
  BY <1>1 DEF TypeOK
<1>4. Chain(internal_children, internal_heap_pointer)'
  BY <1>2 DEF TreeIInv, nodeVars, Chain
<1> QED BY <1>1, <1>2, <1>3, <1>4 DEF TreeIInv, lookupVars, nodeVars

LEMMA InlineStep ==
  ASSUME TreeIInv, NEW tokens \in Tokens, pathChangeInline(tokens), answer' \in BOOLEAN
  PROVE  TreeIInv'
<1> DEFINE moves == Moves(tokens)
           failed == moves < Len(tokens)
           P == Paths \ {<<>>}
<1>1. tokens \in Seq(P) /\ Len(tokens) \in Nat
  <2>1. PICK m \in 0 .. 2 : tokens \in [1 .. m -> Paths \ {<<>>}]
    BY DEF Tokens, BoundedSeq, SeqOf
  <2>2. tokens \in Seq(Paths \ {<<>>})
    BY <2>1
  <2>3. tokens \in Seq(P)
    BY <2>2
  <2> HIDE DEF P
  <2> QED BY <2>3, LenProperties
<1>2. \A k \in 1 .. Len(tokens) : tokens[k] \in Seq(Names)
  <2>1. \A k \in 1 .. Len(tokens) : tokens[k] \in P
    <3> HIDE DEF P
    <3> QED BY <1>1, ElementOfSeq
  <2> QED BY <2>1, PathIsShortSeq
<1>3. /\ moves \in 0 .. Len(tokens)
      /\ \A k \in 1 .. moves : IsDirectory(CompleteDirectory(tokens[k]))
      /\ failed => ~ IsDirectory(CompleteDirectory(tokens[moves + 1]))
  <2> HIDE DEF P
  <2> QED BY <1>1, MovesFacts
<1>4. PICK flags \in [1 .. moves -> BOOLEAN] :
        /\ \A k \in 1 .. moves : NodeSet(flags[k])
        /\ addNodes(flags)
  BY DEF pathChangeInline
<1>5. /\ Len(Children) + moves <= MaxChildren
      /\ IF moves = 0
           THEN UNCHANGED <<working_directory, debugVars>>
           ELSE /\ working_directory' = MovedTo(CompleteDirectory(tokens[moves]))
                /\ fail(cannot_change_directory)
      /\ filesystem_current_directory' =
           IF failed THEN CompleteDirectory(tokens[moves + 1])
                     ELSE filesystem_current_directory
      /\ result' = IF tokens = <<>> THEN result ELSE failed
      /\ UNCHANGED <<tree, filesystem_directory_known, filesystem_status_structure,
                     offsetVars, lookupVars, internal_heap_pointer,
                     head_is_directory>>
  BY DEF pathChangeInline
<1> HIDE DEF moves, P
<1>6. TypeOK'
  <2>1. IsDirectory(working_directory')
    BY <1>5, MovedToDirectory DEF TreeIInv, TypeOK
  <2>2. filesystem_current_directory' \in Seq(Names)
    <3>1. filesystem_current_directory \in Seq(Names)
      BY DEF TreeIInv, TypeOK
    <3>2. CASE failed
      <4>1. tokens[moves + 1] \in Seq(Names)
        <5>1. moves + 1 \in 1 .. Len(tokens)
          BY <1>1, <1>3, <3>2
        <5> QED BY <1>2, <5>1
      <4>2. CompleteDirectory(tokens[moves + 1]) \in Seq(Names)
        BY <3>1, <4>1, ConcatProperties DEF CompleteDirectory
      <4> QED BY <1>5, <3>2, <4>2
    <3> QED BY <1>5, <3>1, <3>2
  <2>3. result' \in BOOLEAN
    <3>1. failed \in BOOLEAN /\ result \in BOOLEAN
      BY DEF TreeIInv, TypeOK
    <3>2. result' = IF tokens = <<>> THEN result ELSE failed
      BY <1>5
    <3> HIDE DEF failed
    <3> QED BY <3>1, <3>2
  <2>4. /\ debug_class_return_code' \in {NotSet} \cup LegalCodes(5)
        /\ process' \in ProcessStates
    BY <1>5, FailTypes DEF TreeIInv, TypeOK, debugVars
  <2> QED BY <1>5, <2>1, <2>2, <2>3, <2>4, TreeKept DEF TreeIInv, TypeOK
<1>7. Chain(internal_children', internal_heap_pointer)
  <2>1. internal_children' =
          [internal_children EXCEPT ![internal_heap_pointer] =
             internal_children[internal_heap_pointer] \o flags]
    BY <1>4 DEF addNodes
  <2>2. moves \in Nat /\ \A k \in 1 .. moves : flags[k] = TRUE
    BY <1>1, <1>3, <1>4 DEF NodeSet
  <2>3. Len(internal_children[internal_heap_pointer]) + moves <= MaxChildren
    BY <1>5 DEF Children
  <2> QED BY <1>4, <2>1, <2>2, <2>3, ChainAdds DEF TreeIInv
<1>8. Chain(internal_children, internal_heap_pointer)'
  BY <1>5, <1>7 DEF Chain
<1> QED BY <1>5, <1>6, <1>8 DEF TreeIInv, offsetVars, lookupVars

LEMMA BackwardsStep ==
  ASSUME TreeIInv, stepBackwardsOnce
  PROVE  TreeIInv'
<1>1. stepBackDirectory(0) /\ answer' \in BOOLEAN
      /\ UNCHANGED <<offsetVars, lookupVars, nodeVars>>
  BY DEF stepBackwardsOnce
<1>2. TypeOK /\ TypeOK'
  BY <1>1, StepBackType DEF TreeIInv
<1> QED BY <1>1, <1>2, ObjectKept

LEMMA ForwardsStep ==
  ASSUME TreeIInv, NEW name \in Seq(Names), stepForwardsOnce(name)
  PROVE  TreeIInv'
<1> DEFINE at == internal_heap_pointer
<1>1. /\ changeDirectory(name) /\ answer' \in BOOLEAN
      /\ at' = at \/ (Children # <<>> /\ at' = at + 1)
      /\ at' <= MaxLevels
      /\ UNCHANGED <<offsetVars, lookupVars, internal_children, head_is_directory>>
  BY DEF stepForwardsOnce, moveDown
<1>2. TypeOK /\ TypeOK'
  BY <1>1, ChangeDirectoryType DEF TreeIInv
<1>4. Chain(internal_children, at')
  <2>1. CASE at' = at
    BY <2>1 DEF TreeIInv
  <2>2. CASE Children # <<>> /\ at' = at + 1
    BY <1>1, <2>2, ChainGoesDown DEF TreeIInv, Children
  <2> QED BY <1>1, <2>1, <2>2
<1>5. Chain(internal_children, internal_heap_pointer)'
  BY <1>1, <1>4 DEF Chain
<1> QED BY <1>1, <1>2, <1>5 DEF TreeIInv, offsetVars, lookupVars

LEMMA KillParentStep ==
  ASSUME TreeIInv, killParent
  PROVE  /\ TreeIInv'
         /\ process' # "undefined"
<1>1. process = "running" /\ UNCHANGED <<offsetVars, lookupVars, nodeVars>>
  BY DEF killParent, Armed
<1>2. CASE CurrentIsDirectory
  <2>1. removeDirectory(<<>>) /\ UNCHANGED answer
    BY <1>2 DEF killParent
  <2>2. TypeOK'
    BY <2>1, RootIsPath, RemoveType DEF TreeIInv
  <2>3. Abort \/ (fail(cannot_remove_directory) /\ UNCHANGED stateVars)
    BY <2>1 DEF removeDirectory, Perform
  <2>4. process' # "undefined"
    BY <1>1, <2>3, FailTypes DEF Abort, TreeIInv
  <2>5. TreeIInv'
    BY <1>1, <2>1, <2>2, ObjectKept DEF TreeIInv
  <2> QED BY <2>4, <2>5
<1>3. CASE ~ CurrentIsDirectory
  <2>1. answer' = FALSE /\ UNCHANGED vars
    BY <1>3 DEF killParent
  <2>2. TypeOK'
    BY <2>1, UnchangedType DEF TreeIInv
  <2>3. TreeIInv'
    BY <1>1, <2>1, <2>2, ObjectKept
  <2> QED BY <1>1, <2>1, <2>3 DEF vars, debugVars
<1> QED BY <1>2, <1>3

(***************************************************************************)
(* Only the head of the tree can pass for a file.                          *)
(***************************************************************************)
LEMMA OnlyHeadIsNoDirectory ==
  ASSUME TreeIInv, ~ CurrentIsDirectory
  PROVE  internal_heap_pointer = 1
<1> SUFFICES ASSUME internal_heap_pointer # 1 PROVE FALSE
  OBVIOUS
<1> DEFINE k == internal_heap_pointer - 1
           above == internal_children[k]
<1>1. k \in 1 .. MaxLevels /\ k \in 1 .. internal_heap_pointer - 1
  BY TreeAssumption DEF TreeIInv, Chain
<1> HIDE DEF k
<1>2. above # <<>> /\ \A i \in 1 .. Len(above) : above[i] = TRUE
  BY <1>1 DEF TreeIInv, Chain, k
<1>3. above \in Seq(BOOLEAN)
  BY <1>1, FlagsAreShortSeq DEF TreeIInv, Chain
<1>4. Len(above) \in Nat \ {0} /\ Head(above) = above[1]
  BY <1>2, <1>3, EmptySeq
<1>5. 1 \in 1 .. Len(above)
  BY <1>4
<1>6. above[1] = TRUE
  BY <1>2, <1>5, Zenon
<1>7. Head(above) = TRUE
  BY <1>4, <1>6, Zenon
<1>8. CurrentIsDirectory = Head(above)
  BY DEF CurrentIsDirectory, k
<1> QED BY <1>7, <1>8, Zenon

LEMMA KillChildStep ==
  ASSUME TreeIInv, NEW name \in Seq(Names), killChild(name)
  PROVE  /\ TreeIInv'
         /\ process' # "undefined"
<1>1. CASE /\ Armed
           /\ answer' = FALSE
           /\ UNCHANGED <<vars, offsetVars, lookupVars, nodeVars>>
  <2>1. TypeOK'
    BY <1>1, UnchangedType DEF TreeIInv
  <2>2. TreeIInv'
    BY <1>1, <2>1, ObjectKept
  <2> QED BY <1>1, <2>2 DEF Armed, vars, debugVars
<1>2. CASE stepForwardsOnce(name)
  <2>1. process = "running" /\ changeDirectory(name)
    BY <1>2 DEF stepForwardsOnce, Armed
  <2>2. process' # "undefined"
    BY <2>1, FailTypes DEF changeDirectory, Change, Abort, debugVars, TreeIInv
  <2> QED BY <1>2, <2>2, ForwardsStep
<1>3. CASE /\ Armed /\ ~ CurrentIsDirectory
           /\ removeNode
           /\ result' = FALSE
           /\ answer' = FALSE
           /\ UNCHANGED <<headVars, osVars, filesystem_status_structure, offsetVars,
                          lookupVars, internal_heap_pointer, head_is_directory>>
  <2>1. internal_heap_pointer = 1
    BY <1>3, OnlyHeadIsNoDirectory
  <2>2. internal_children' = ChildrenCleared /\ UNCHANGED debugVars
    BY <1>3, <2>1 DEF removeNode
  <2>3. ChildrenCleared = [k \in 1 .. MaxLevels |-> <<>>]
    BY <2>1, TreeAssumption DEF ChildrenCleared
  <2>5. TypeOK'
    BY <1>3, <2>2, TreeKept DEF TreeIInv, TypeOK, headVars, osVars, debugVars
  <2>6. Chain(internal_children, internal_heap_pointer)'
    <3>1. Chain(internal_children', 1) /\ internal_heap_pointer' = 1
      BY <1>3, <2>1, <2>2, <2>3, ChainCleared
    <3> QED BY <3>1 DEF Chain
  <2>7. TreeIInv'
    BY <1>3, <2>5, <2>6 DEF TreeIInv, offsetVars, lookupVars
  <2> QED BY <1>3, <2>2, <2>7 DEF Armed, debugVars
<1> QED BY <1>1, <1>2, <1>3 DEF killChild

LEMMA LookupStep ==
  ASSUME TreeIInv,
         \/ \E p \in Paths, h \in Hosts : addForeignLookup(p, h)
         \/ \E h \in Hosts : removeForeignLookup(h) \/ setHostIdentifier(h)
  PROVE  TreeIInv'
<1>1. /\ UNCHANGED vars /\ UNCHANGED <<offsetVars, nodeVars>>
      /\ answer' \in BOOLEAN
      /\ internal_host_identifier' \in Hosts \cup {Unnamed}
  BY DEF addForeignLookup, removeForeignLookup, setHostIdentifier, TreeIInv, lookupVars
<1>2. internal_foreign_nodes' \in [Hosts -> Paths \cup {Missing}]
  BY DEF addForeignLookup, removeForeignLookup, setHostIdentifier, TreeIInv, lookupVars
<1>3. TypeOK'
  BY <1>1, UnchangedType DEF TreeIInv
<1>4. Chain(internal_children, internal_heap_pointer)'
  BY <1>1 DEF TreeIInv, nodeVars, Chain
<1> QED BY <1>1, <1>2, <1>3, <1>4 DEF TreeIInv, offsetVars, nodeVars

LEMMA CleanStep ==
  ASSUME TreeIInv, clean
  PROVE  TreeIInv'
<1>1. CASE Undefined /\ UNCHANGED objectVars
  BY <1>1, TreeEnds
<1>2. CASE /\ internal_offset_armed' = FALSE
           /\ internal_filesystem_offset' = <<>>
           /\ internal_host_identifier' = Unnamed
           /\ internal_foreign_nodes' = [h \in Hosts |-> Missing]
           /\ UNCHANGED <<vars, nodeVars, answer>>
  <2>1. TypeOK'
    BY <1>2, UnchangedType DEF TreeIInv
  <2>2. Chain(internal_children, internal_heap_pointer)'
    BY <1>2 DEF TreeIInv, nodeVars, Chain
  <2> QED BY <1>2, <2>1, <2>2, RootIsPath DEF TreeIInv, nodeVars
<1> QED BY <1>1, <1>2 DEF clean

LEMMA NameIsSeq ==
  ASSUME NEW name \in BoundedSeq(Names, 1)
  PROVE  name \in Seq(Names)
<1>1. PICK m \in 0 .. 1 : name \in [1 .. m -> Names]
  BY DEF BoundedSeq, SeqOf
<1> QED BY <1>1

LEMMA TreeStep ==
  ASSUME TreeIInv, [TreeNext]_treeVars
  PROVE  TreeIInv'
<1>1. ASSUME Unarmed \/ updateRepresentation PROVE TreeIInv'
  <2>1. CASE (Abort \/ Undefined) /\ UNCHANGED objectVars
    BY <2>1, TreeEnds
  <2>2. CASE fail(cannot_open_directory) /\ UNCHANGED stateVars /\ UNCHANGED objectVars
    <3>1. TypeOK'
      BY <2>2, ReportType DEF TreeIInv
    <3> QED BY <2>2, <3>1, ObjectKept DEF objectVars, TreeIInv
  <2> QED BY <1>1, <2>1, <2>2 DEF Unarmed, TreeAbort, updateRepresentation
<1>2. ASSUME NEW t \in Tokens, pathExists(t) \/ pathChange(t) PROVE TreeIInv'
  <2>1. pathChangeInline(t) /\ answer' \in BOOLEAN
    BY <1>2 DEF pathExists, pathChange
  <2> QED BY <2>1, InlineStep
<1>3. ASSUME NEW name \in BoundedSeq(Names, 1),
             stepForwardsOnce(name) \/ killChild(name)
      PROVE  TreeIInv'
  BY <1>3, NameIsSeq, ForwardsStep, KillChildStep
<1>4. ASSUME UNCHANGED treeVars PROVE TreeIInv'
  <2>1. UNCHANGED vars /\ UNCHANGED objectVars
    BY <1>4 DEF treeVars
  <2>2. TypeOK'
    BY <2>1, UnchangedType DEF TreeIInv
  <2> QED BY <2>1, <2>2, ObjectKept DEF objectVars, TreeIInv
<1> QED BY <1>1, <1>2, <1>3, <1>4, OffsetStep, BackwardsStep, KillParentStep, LookupStep,
        CleanStep DEF TreeNext

LEMMA TreeInitIInv == TreeInit => TreeIInv
<1> SUFFICES ASSUME TreeInit PROVE TreeIInv
  OBVIOUS
<1>1. TypeOK
  BY InitType DEF TreeInit
<1>2. Chain(internal_children, internal_heap_pointer)
  BY ChainCleared DEF TreeInit
<1> QED BY <1>1, <1>2, RootIsPath DEF TreeInit, TreeIInv

(***************************************************************************)
(* Every behaviour of internal_unbalanced_tree_filesystem stays within the *)
(* inductive invariant: the nodes form a chain of directories.             *)
(***************************************************************************)
THEOREM TreeInvariance == TreeSpec => []TreeIInv
<1>1. TreeIInv /\ [TreeNext]_treeVars => TreeIInv'
  BY TreeStep
<1> QED BY <1>1, TreeInitIInv, PTL DEF TreeSpec

(***************************************************************************)
(* The tree of internal_unbalanced_tree_filesystem keeps its types: the    *)
(* current node always exists, for whatever paths and names it is asked.   *)
(***************************************************************************)
THEOREM TreeTypeCorrect == TreeSpec => []TreeTypeOK
<1>1. TreeIInv => TreeTypeOK
  BY DEF TreeIInv, Chain, TreeTypeOK
<1> QED BY <1>1, TreeInvariance, PTL

(***************************************************************************)
(* removeNode never follows the null parent of a node: every node but the  *)
(* head was added by pathChangeInline, as a directory.                     *)
(***************************************************************************)
THEOREM ParentIsSafe == TreeSpec => NullParentIsNeverFollowed
<1>1. TreeIInv /\ [TreeNext]_treeVars =>
        [killParent \/ (\E name \in BoundedSeq(Names, 1) : killChild(name))
           => process' # "undefined"]_treeVars
  <2> SUFFICES ASSUME TreeIInv,
                      killParent \/ (\E name \in BoundedSeq(Names, 1) : killChild(name))
               PROVE  process' # "undefined"
    OBVIOUS
  <2>1. \A name \in BoundedSeq(Names, 1) : name \in Seq(Names)
    BY NameIsSeq
  <2> QED BY <2>1, KillParentStep, KillChildStep
<1> QED BY <1>1, TreeInvariance, PTL DEF TreeSpec, NullParentIsNeverFollowed

============================================================================
