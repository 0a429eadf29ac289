-------------------------- MODULE HandlerCallback --------------------------
(***************************************************************************)
(* handler_callback (defs_handler.h): a function stored for a later call,  *)
(* either ready to call (free or already bound) or bound here to arguments *)
(* that can be replaced while the function is kept.                        *)
(*                                                                         *)
(* A handler is a record: free is handler_function_parameter_free, unbound *)
(* is handler_unbound_function_pointer, formatted is                       *)
(* handler_formatted_function as the function it calls and its arguments.  *)
(***************************************************************************)
CONSTANTS
  Callables,     \* functions a program may register
  Arguments,     \* argument lists it may bind
  NullPtr,       \* nullptr
  Indeterminate, \* the value of a member no constructor initialises
  NoArguments    \* the argument list of a function called without any

ASSUME HandlerAssumption ==
  /\ NullPtr \notin Callables
  /\ Indeterminate \notin Callables \cup {NullPtr}

Formatted ==
  [fn   : Callables \cup {NullPtr, Indeterminate},
   args : Arguments \cup {NoArguments}]

Handlers ==
  [free : BOOLEAN, unbound : Callables \cup {Indeterminate},
   formatted : Formatted]

(***************************************************************************)
(* handler_callback(nullptr): the constructor leaves the unbound pointer   *)
(* uninitialised.                                                          *)
(***************************************************************************)
handler_callback ==
  [free |-> TRUE, unbound |-> Indeterminate,
   formatted |-> [fn |-> NullPtr, args |-> NoArguments]]

setFunction(function_pointer, args) ==
  [free |-> FALSE, unbound |-> function_pointer,
   formatted |-> [fn |-> function_pointer, args |-> args]]

(***************************************************************************)
(* The unbound pointer keeps whatever it held.                             *)
(***************************************************************************)
setBoundOrFreeFunction(h, function_pointer) ==
  [h EXCEPT !.free = TRUE,
            !.formatted = [fn |-> function_pointer, args |-> NoArguments]]

(***************************************************************************)
(* Mutant of setParametersAsserts: without the assert.                     *)
(***************************************************************************)

setParametersUnchecked(h) == TRUE

(***************************************************************************)
(* setParameters asserts that the handler is not parameter free.           *)
(***************************************************************************)
setParametersAsserts(h) == ~ h.free

setParameters(h, args) ==
  [h EXCEPT !.formatted = [fn |-> h.unbound, args |-> args]]

(***************************************************************************)
(* run asserts that a function is stored, then calls it.                   *)
(***************************************************************************)
runAsserts(h) == h.formatted.fn # NullPtr
============================================================================
