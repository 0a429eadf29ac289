----------------------------- MODULE TagSearch -----------------------------
(***************************************************************************)
(* getTagOffsetAndSplice of encryption_offline (defs_encryption.h): looks  *)
(* backwards through a ciphertext for the delimeter before its tag.  One   *)
(* call on a new object, a step for every turn of its loop.  AESDecrypt    *)
(* never gets as far as this call, so the search is specified by itself.   *)
(***************************************************************************)
EXTENDS EncryptionOffline, SequencesExt

CONSTANT MaxCiphertext \* bound on the length of a ciphertext with its tag

ASSUME SearchAssumption == MaxCiphertext \in Nat

VARIABLES
  in,
  size,  \* the index, from 0, of the byte looked at last
  i,     \* the index, from 0, of the byte of the delimeter to come
  result \* the offset of the tag in the ciphertext

searchVars == <<in, size, i, result>>

(***************************************************************************)
(* Bytes that are no newlines need not be told apart.                      *)
(***************************************************************************)
Newline == "newline"
Bytes == {Newline, "other"}
TAG_DELIMETER == <<Newline, Newline>>
NULL == -1

improper_ciphertext_format == 13

LastIndex == Len(TAG_DELIMETER) - 1

Searching == process = "running" /\ result = NULL

SearchInit ==
  /\ Init
  /\ in \in BoundedSeq(Bytes, MaxCiphertext)
  /\ size = Len(in)
  /\ i = LastIndex
  /\ result = NULL

(***************************************************************************)
(* The condition of the loop, which decrements size unless i is -1.        *)
(***************************************************************************)
GoesOn == i # -1 /\ size - 1 >= LastIndex

(***************************************************************************)
(* Mutant of Unmatched: the byte matched before still counts.              *)
(***************************************************************************)
UnmatchedGoesOn == i

(***************************************************************************)
(* After a byte that does not match, the last byte of the delimeter is to  *)
(* come.                                                                   *)
(***************************************************************************)
Unmatched == LastIndex

(***************************************************************************)
(* Mutant of compareByte: only a byte that matches is left behind.         *)
(***************************************************************************)
compareByteAgain ==
  /\ Searching /\ GoesOn
  /\ IF TAG_DELIMETER[i + 1] = in[size]
       THEN size' = size - 1 /\ i' = i - 1
       ELSE size' = size /\ i' = Unmatched
  /\ UNCHANGED <<in, result, vars>>

(***************************************************************************)
(* A turn of the loop: the byte at the decremented index is compared.      *)
(***************************************************************************)
compareByte ==
  /\ Searching /\ GoesOn
  /\ size' = size - 1
  /\ i' = IF TAG_DELIMETER[i + 1] = in[size' + 1] THEN i - 1 ELSE Unmatched
  /\ UNCHANGED <<in, result, vars>>

(***************************************************************************)
(* What follows the loop.  The code of the failure is not a legal one.     *)
(***************************************************************************)
loopEnds ==
  /\ Searching /\ ~ GoesOn
  /\ size' = IF i = -1 THEN size ELSE size - 1
  /\ IF Len(in) # size' /\ i = -1
       THEN /\ result' = size' + Len(TAG_DELIMETER)
            /\ UNCHANGED vars
       ELSE /\ setReturnCode(encryption_local_errors, improper_ciphertext_format)
            /\ UNCHANGED <<result, stateVars>>
  /\ UNCHANGED <<in, i>>

SearchNext == compareByte \/ loopEnds

SearchSpec == SearchInit /\ [][SearchNext]_<<vars, searchVars>>

----------------------------------------------------------------------------
(***************************************************************************)
(* What insertTag makes of a ciphertext and the bytes of the tag it        *)
(* copies, the number of which it reads from a variable it never set.  No  *)
(* path of AESEncrypt gets as far as to call it.                           *)
(***************************************************************************)
insertTag(ciphertext, tag) == ciphertext \o TAG_DELIMETER \o tag

(***************************************************************************)
(* Tags that cannot be taken for a part of a delimeter: they neither begin *)
(* with a newline nor have two in a row.                                   *)
(***************************************************************************)
Unambiguous(tag) ==
  \A j \in DOMAIN tag : tag[j] = Newline => j > 1 /\ tag[j - 1] # Newline

(***************************************************************************)
(* "return the tag offset pointer": getTagOffsetAndSplice returns what     *)
(* follows a delimeter, and for every ciphertext that is not empty, may it *)
(* hold delimeters and end in newlines, and every unambiguous tag that     *)
(* insertTag appends to it, it returns that tag.                           *)
(***************************************************************************)
TagIsFound ==
  /\ result # NULL =>
       /\ result - Len(TAG_DELIMETER) \in 0 .. Len(in) - Len(TAG_DELIMETER)
       /\ \A j \in DOMAIN TAG_DELIMETER :
            in[result - Len(TAG_DELIMETER) + j] = TAG_DELIMETER[j]
  /\ \A k \in DOMAIN in :
       LET ciphertext == SubSeq(in, 1, k)
           tag == SubSeq(in, k + Len(TAG_DELIMETER) + 1, Len(in))
       IN  in = insertTag(ciphertext, tag) /\ Unambiguous(tag) =>
             process = "running" /\ result \in {NULL, k + Len(TAG_DELIMETER)}

(***************************************************************************)
(* getTagOffsetAndSplice comes to an end on every ciphertext: with the     *)
(* offset of a tag, or with the assert of its failure.                     *)
(***************************************************************************)
SearchEnds == <>(result # NULL \/ process # "running")
============================================================================
