-------------------------- MODULE TreeFilesystem --------------------------
(***************************************************************************)
(* internal_unbalanced_tree_filesystem (defs_internal.h): a tree of nodes  *)
(* that is to mirror a part of the file system, moved together with the    *)
(* filesystem_head it reads with.                                          *)
(*                                                                         *)
(* No node gets a name, and none but the head of the tree is entered       *)
(* except through the name "", so the nodes ever reached are a chain of    *)
(* first children: internal_children[k] are the children of the k-th node  *)
(* of the chain, each given by its is_directory.  The parent pointer of    *)
(* every node stays null.                                                  *)
(***************************************************************************)
EXTENDS FilesystemHead

CONSTANTS
  Hosts,       \* identifiers of hosts
  MaxChildren, \* bound on the children of a node
  MaxLevels    \* bound on the length of the chain

ASSUME TreeAssumption == MaxChildren \in Nat /\ MaxLevels \in Nat \ {0}

VARIABLES
  internal_offset_armed,
  internal_filesystem_offset,
  internal_host_identifier,
  internal_foreign_nodes, \* the path stored under a host, or Missing
  internal_children,
  internal_heap_pointer,  \* which node of the chain is the current one
  head_is_directory,      \* is_directory of the head, never initialised
  answer                  \* what the last operation returned

offsetVars == <<internal_offset_armed, internal_filesystem_offset>>
lookupVars == <<internal_host_identifier, internal_foreign_nodes>>
nodeVars == <<internal_children, internal_heap_pointer, head_is_directory>>
objectVars == <<offsetVars, lookupVars, nodeVars, answer>>
treeVars == <<vars, objectVars>>

Unnamed == "" \* the name of every node

(***************************************************************************)
(* The reader is built without a directory.                                *)
(***************************************************************************)
TreeInit ==
  /\ Init
  /\ filesystem_current_directory = <<>>
  /\ internal_offset_armed = FALSE
  /\ internal_filesystem_offset = <<>>
  /\ internal_host_identifier = Unnamed
  /\ internal_foreign_nodes = [h \in Hosts |-> Missing]
  /\ internal_children = [k \in 1 .. MaxLevels |-> <<>>]
  /\ internal_heap_pointer = 1
  /\ head_is_directory \in BOOLEAN
  /\ answer = FALSE

TreeAbort == Abort /\ UNCHANGED objectVars

(***************************************************************************)
(* Every operation but setFilesystemOffset and setHostIdentifier asserts   *)
(* that the offset is armed; serializeRequest, deserializeResponse,        *)
(* serializeResponse and getForeignLookup change nothing otherwise.        *)
(***************************************************************************)
Unarmed ==
  /\ process = "running"
  /\ ~ internal_offset_armed
  /\ TreeAbort

Armed == process = "running" /\ internal_offset_armed

----------------------------------------------------------------------------
(***************************************************************************)
(* internal_unbalanced_tree.                                               *)
(***************************************************************************)
Children == internal_children[internal_heap_pointer]

CurrentIsDirectory ==
  IF internal_heap_pointer = 1
    THEN head_is_directory
    ELSE Head(internal_children[internal_heap_pointer - 1])

addNodes(flags) ==
  internal_children' = [internal_children EXCEPT ![internal_heap_pointer] = @ \o flags]

moveDown(name) ==
  internal_heap_pointer' =
    IF name = Unnamed /\ Children # <<>> THEN internal_heap_pointer + 1
                                         ELSE internal_heap_pointer

(***************************************************************************)
(* Clearing the children of a node clears what hangs below them.           *)
(***************************************************************************)
ChildrenCleared ==
  [k \in 1 .. MaxLevels |->
     IF k >= internal_heap_pointer THEN <<>> ELSE internal_children[k]]

----------------------------------------------------------------------------
(***************************************************************************)
(* setRoot returns TRUE when the process could NOT go to the root.         *)
(***************************************************************************)
ArmedBy(set) == set

setFilesystemOffset(offset, delimeter) ==
  /\ setRoot(offset, delimeter)
  /\ internal_filesystem_offset' = offset
  /\ internal_offset_armed' = ArmedBy(result')
  /\ answer' = result'
  /\ UNCHANGED <<lookupVars, nodeVars>>

(***************************************************************************)
(* updateRepresentation lists the directory the process is in (one that    *)
(* cannot be opened ends the process with an illegal code) and walks       *)
(* through the vector of a listing after the shared_ptr to it is gone; it  *)
(* is never empty, since it holds "." and "..".                            *)
(***************************************************************************)
updateRepresentation ==
  /\ Armed
  /\ IF IsDirectory(working_directory)
       THEN Undefined
       ELSE fail(cannot_open_directory) /\ UNCHANGED stateVars
  /\ UNCHANGED objectVars

(***************************************************************************)
(* Mutant of NodeSet: the first two arguments of set swapped, so that it   *)
(* sets nothing.                                                           *)
(***************************************************************************)
NodeUnset(flag) == flag \in BOOLEAN

(***************************************************************************)
(* What set leaves in the is_directory of a node of pathChangeInline.      *)
(***************************************************************************)
NodeSet(flag) == flag = TRUE

(***************************************************************************)
(* pathChangeInline splits the path at white space and steps forward while *)
(* stepForwardDirectory returns FALSE, that is, while the process moves:   *)
(* each such step adds a node to the current one, and the first other step *)
(* changes the recorded directory.  path_heaped is FALSE, so the tree is   *)
(* never moved down in, the moveUp of the way back does nothing and the    *)
(* path completed stays empty.                                             *)
(***************************************************************************)
Moves(tokens) ==
  CHOOSE n \in 0 .. Len(tokens) :
    /\ \A k \in 1 .. n :
         ~ filesystem_change_directory_function(CompleteDirectory(tokens[k]))
    /\ n < Len(tokens) =>
         filesystem_change_directory_function(CompleteDirectory(tokens[n + 1]))

pathChangeInline(tokens) ==
  LET moves  == Moves(tokens)
      failed == moves < Len(tokens)
  IN  /\ Len(Children) + moves <= MaxChildren
      /\ failed => Len(CompleteDirectory(tokens[moves + 1])) <= MaxRecorded
      /\ \E flags \in [1 .. moves -> BOOLEAN] :
           /\ \A k \in 1 .. moves : NodeSet(flags[k])
           /\ addNodes(flags)
      /\ IF moves = 0
           THEN UNCHANGED <<working_directory, debugVars>>
           ELSE /\ working_directory' = MovedTo(CompleteDirectory(tokens[moves]))
                /\ fail(cannot_change_directory)
      /\ filesystem_current_directory' =
           IF failed THEN CompleteDirectory(tokens[moves + 1])
                     ELSE filesystem_current_directory
      /\ result' = IF tokens = <<>> THEN result ELSE failed
      /\ UNCHANGED <<tree, filesystem_directory_known, filesystem_status_structure,
                     offsetVars, lookupVars, internal_heap_pointer,
                     head_is_directory>>

(***************************************************************************)
(* Both ask whether the path completed is not empty.                       *)
(***************************************************************************)
pathExists(tokens) == Armed /\ pathChangeInline(tokens) /\ answer' = FALSE

pathChange(tokens) == Armed /\ pathChangeInline(tokens) /\ answer' = FALSE

stepBackwardsOnce ==
  /\ Armed
  /\ stepBackDirectory(0)
  /\ answer' = FALSE
  /\ UNCHANGED <<offsetVars, lookupVars, nodeVars>>

(***************************************************************************)
(* A name is a sequence of at most one, <<>> being the empty string; with  *)
(* it changeDirectory reads the byte before the text of the string, a zero *)
(* of its length, and appends nothing.                                     *)
(***************************************************************************)
stepForwardsOnce(name) ==
  /\ Armed
  /\ changeDirectory(name)
  /\ moveDown(IF name = <<>> THEN Unnamed ELSE name[1])
  /\ internal_heap_pointer' <= MaxLevels
  /\ answer' = FALSE
  /\ UNCHANGED <<offsetVars, lookupVars, internal_children, head_is_directory>>

----------------------------------------------------------------------------
(***************************************************************************)
(* removeNode(""): off the head of the tree it follows the null parent.    *)
(***************************************************************************)
removeNode ==
  IF internal_heap_pointer = 1
    THEN /\ internal_children' = ChildrenCleared
         /\ UNCHANGED debugVars
    ELSE /\ process' = "undefined"
         /\ UNCHANGED <<internal_children, debug_class_return_code>>

(***************************************************************************)
(* killParent asks rmdir for "./", which always fails, with a code that is *)
(* not legal; both operations return 0.                                    *)
(***************************************************************************)
killParent ==
  /\ Armed
  /\ IF CurrentIsDirectory
       THEN removeDirectory(<<>>) /\ UNCHANGED <<answer>>
       ELSE answer' = FALSE /\ UNCHANGED vars
  /\ UNCHANGED <<offsetVars, lookupVars, nodeVars>>

(***************************************************************************)
(* killChild finds no node that has a name.  For "", which finds the       *)
(* current node, stepForwardsOnce always answers FALSE, so nothing is      *)
(* killed; unlink of "" fails.                                             *)
(***************************************************************************)
killChild(name) ==
  \/ /\ Armed /\ name # <<>>
     /\ answer' = FALSE
     /\ UNCHANGED <<vars, offsetVars, lookupVars, nodeVars>>
  \/ /\ name = <<>> /\ CurrentIsDirectory
     /\ stepForwardsOnce(name)
  \/ /\ Armed /\ name = <<>> /\ ~ CurrentIsDirectory
     /\ removeNode
     /\ result' = FALSE
     /\ answer' = FALSE
     /\ UNCHANGED <<headVars, osVars, filesystem_status_structure, offsetVars,
                    lookupVars, internal_heap_pointer, head_is_directory>>

----------------------------------------------------------------------------
(***************************************************************************)
(* The lookups of foreign nodes: stored under the host, and never removed. *)
(***************************************************************************)
addForeignLookup(path, host) ==
  /\ Armed
  /\ internal_foreign_nodes' =
       [internal_foreign_nodes EXCEPT ![host] = IF @ = Missing THEN path ELSE @]
  /\ UNCHANGED <<vars, offsetVars, internal_host_identifier, nodeVars, answer>>

removeForeignLookup(host) ==
  /\ Armed
  /\ answer' = (internal_foreign_nodes[host] # Missing)
  /\ UNCHANGED <<vars, offsetVars, lookupVars, nodeVars>>

setHostIdentifier(identifier) ==
  /\ process = "running"
  /\ internal_host_identifier' = identifier
  /\ UNCHANGED <<vars, offsetVars, internal_foreign_nodes, nodeVars, answer>>

(***************************************************************************)
(* clean cannot climb to the head, so it starts at the current node; with  *)
(* children there it goes on through pointers to copies that are gone.     *)
(***************************************************************************)
clean ==
  /\ Armed
  /\ IF Children # <<>>
       THEN Undefined /\ UNCHANGED objectVars
       ELSE /\ internal_offset_armed' = FALSE
            /\ internal_filesystem_offset' = <<>>
            /\ internal_host_identifier' = Unnamed
            /\ internal_foreign_nodes' = [h \in Hosts |-> Missing]
            /\ UNCHANGED <<vars, nodeVars, answer>>

----------------------------------------------------------------------------
Tokens == BoundedSeq(Paths \ {<<>>}, 2)

TreeNext ==
  \/ \E p \in Paths, d \in BOOLEAN : setFilesystemOffset(p, d)
  \/ Unarmed
  \/ updateRepresentation
  \/ \E t \in Tokens : pathExists(t) \/ pathChange(t)
  \/ stepBackwardsOnce
  \/ \E name \in BoundedSeq(Names, 1) : stepForwardsOnce(name) \/ killChild(name)
  \/ killParent
  \/ \E p \in Paths, h \in Hosts : addForeignLookup(p, h)
  \/ \E h \in Hosts : removeForeignLookup(h) \/ setHostIdentifier(h)
  \/ clean

TreeSpec == TreeInit /\ [][TreeNext]_treeVars

----------------------------------------------------------------------------
(***************************************************************************)
(* Type invariant; the current node exists.                                *)
(***************************************************************************)
TreeTypeOK ==
  /\ TypeOK
  /\ internal_offset_armed \in BOOLEAN
  /\ internal_filesystem_offset \in Paths
  /\ internal_host_identifier \in Hosts \cup {Unnamed}
  /\ internal_foreign_nodes \in [Hosts -> Paths \cup {Missing}]
  /\ internal_children \in [1 .. MaxLevels -> BoundedSeq(BOOLEAN, MaxChildren)]
  /\ internal_heap_pointer \in 1 .. MaxLevels
  /\ \A k \in 1 .. internal_heap_pointer - 1 : internal_children[k] # <<>>
  /\ head_is_directory \in BOOLEAN
  /\ answer \in BOOLEAN

(***************************************************************************)
(* killParent and killChild never follow the null parent of a node: only   *)
(* the head can pass for a file, every other node is a directory.          *)
(***************************************************************************)
NullParentIsNeverFollowed ==
  [][killParent \/ (\E name \in BoundedSeq(Names, 1) : killChild(name))
       => process' # "undefined"]_treeVars

============================================================================
