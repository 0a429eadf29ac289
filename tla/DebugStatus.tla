---------------------------- MODULE DebugStatus ----------------------------
(***************************************************************************)
(* debug_status (defs_debug.h): the base class every manager of the system *)
(* inherits from.  A manager hands it a table of messages; an operation    *)
(* that fails calls setReturnCode, which ASSERTS that the code is legal.   *)
(* The Makefile builds without NDEBUG, so an illegal code ends the process.*)
(*                                                                         *)
(* A module of a class derived from debug_status EXTENDS this one, as the  *)
(* class inherits from the base class.                                     *)
(***************************************************************************)
EXTENDS Integers, Sequences

VARIABLES
  debug_class_return_code, \* last code set, NotSet before the first one
  process                  \* what became of the process: see ProcessStates

debugVars == <<debug_class_return_code, process>>

(***************************************************************************)
(* "aborted": an assert failed.  "undefined": the program left the defined *)
(* behaviour of C++ (a dereferenced end iterator, a freed node, a null     *)
(* call, an exhausted stack).  Neither state has a successor.              *)
(***************************************************************************)
ProcessStates == {"running", "aborted", "undefined"}

NotSet == -1

debug_standard_max_error == 1
debug_class_min_error == 2500

(***************************************************************************)
(* The codes setReturnCode accepts from a class whose table has count      *)
(* messages.  The constructor is handed getMinClassError() + count - 1.    *)
(***************************************************************************)
LegalCodes(count) ==
  (0 .. debug_standard_max_error) \cup
  (debug_class_min_error .. debug_class_min_error + count - 1)

(***************************************************************************)
(* Mutant of setReturnCode: without the assert.                            *)
(***************************************************************************)
setReturnCodeUnchecked(messages, in) ==
  /\ debug_class_return_code' = in
  /\ process' = process

(***************************************************************************)
(* setReturnCode(in) of a class whose message table is messages.           *)
(***************************************************************************)
setReturnCode(messages, in) ==
  IF in \in LegalCodes(Len(messages))
    THEN /\ debug_class_return_code' = in
         /\ process' = process
    ELSE /\ debug_class_return_code' = debug_class_return_code
         /\ process' = "aborted"

InitDebug ==
  /\ debug_class_return_code = NotSet
  /\ process = "running"
============================================================================
