------------------------- MODULE EncryptionOffline -------------------------
(***************************************************************************)
(* encryption_offline (defs_encryption.h): keeps a key, an iv and a secret *)
(* for every address, in three maps.  Keys are model values; the ciphers   *)
(* are OpenSSL's, and are never reached with what they need.               *)
(***************************************************************************)
EXTENDS DebugStatus

CONSTANTS
  Addresses,    \* addresses other than the startup address and ""
  Keys,         \* keys and ivs
  Secrets,      \* secrets other than ""
  None          \* no entry in a map

VARIABLES
  encryption_secrets,
  encryption_keys,
  encryption_ivs,
  paired \* history: the arguments of the calls of setKeys

stateVars == <<encryption_secrets, encryption_keys, encryption_ivs, paired>>
vars == <<stateVars, debugVars>>

Empty == ""
ENCRYPTION_STARTUP_ADDRESS == "_default"
ENCRYPTION_STARTUP_KEY == "93853810395438910475691239120591"
ENCRYPTION_STARTUP_IV == "1123789831053045"

Known == Addresses \cup {ENCRYPTION_STARTUP_ADDRESS} \* those a map may hold
GivenKeys == Keys \cup {ENCRYPTION_STARTUP_KEY}
GivenIvs == Keys \cup {ENCRYPTION_STARTUP_IV}

ASSUME EncryptionAssumption ==
  /\ None \notin GivenKeys \cup GivenIvs \cup Secrets
  /\ Empty \notin Addresses \cup Secrets

encryption_local_errors ==
  <<"Cannot initialize context", "Cannot initialize encryption",
    "Cannot initialize decryption", "Cannot set iv length",
    "Cannot initialize key and iv", "Cannot append additional phrase",
    "Cannot provide plaintext", "Cannot provide ciphertext",
    "Cannot finalize encryption", "Cannot finalize decryption",
    "Cannot obtain tag", "Cannot set tag", "Cannot verify decryption",
    "Improper ciphertext format", "Cannot get SHA">>

cannot_initialize_key_and_iv == 4

Abort ==
  /\ process' = "aborted"
  /\ UNCHANGED <<stateVars, debug_class_return_code>>

Undefined ==
  /\ process' = "undefined"
  /\ UNCHANGED <<stateVars, debug_class_return_code>>

Init ==
  /\ InitDebug
  /\ encryption_secrets = [a \in Known |-> None]
  /\ encryption_keys = [a \in Known |-> None]
  /\ encryption_ivs = [a \in Known |-> None]
  /\ paired = {}

----------------------------------------------------------------------------
(***************************************************************************)
(* emplace leaves an entry that is there as it is.                         *)
(***************************************************************************)
emplace(map, address, value) ==
  [map EXCEPT ![address] = IF @ = None THEN value ELSE @]

erase(map, address) ==
  IF address \in DOMAIN map THEN [map EXCEPT ![address] = None] ELSE map

KeysSet(key, address) == emplace(encryption_keys, address, key)

(***************************************************************************)
(* Mutant of IvsSet: an iv that is there is replaced, the key is not.      *)
(***************************************************************************)
IvsReplaced(iv, address) == [encryption_ivs EXCEPT ![address] = iv]

IvsSet(iv, address) == emplace(encryption_ivs, address, iv)

(***************************************************************************)
(* The asserts on key and iv compare pointers and never fail.              *)
(***************************************************************************)
setKeys(key, iv, address) ==
  /\ process = "running"
  /\ IF address = Empty
       THEN Abort
       ELSE /\ encryption_keys' = KeysSet(key, address)
            /\ encryption_ivs' = IvsSet(iv, address)
            /\ paired' = paired \cup {<<address, key, iv>>}
            /\ UNCHANGED <<encryption_secrets, debugVars>>

wipeKeys(address) ==
  /\ process = "running"
  /\ encryption_keys' = erase(encryption_keys, address)
  /\ encryption_ivs' = erase(encryption_ivs, address)
  /\ UNCHANGED <<encryption_secrets, paired, debugVars>>

addAddressSecret(address, secret) ==
  /\ process = "running"
  /\ IF address = Empty \/ secret = Empty
       THEN Abort
       ELSE /\ encryption_secrets' = emplace(encryption_secrets, address, secret)
            /\ UNCHANGED <<encryption_keys, encryption_ivs, paired, debugVars>>

wipeAddressSecret(address) ==
  /\ process = "running"
  /\ encryption_secrets' = erase(encryption_secrets, address)
  /\ UNCHANGED <<encryption_keys, encryption_ivs, paired, debugVars>>

setDefault(secret) ==
  LET address == ENCRYPTION_STARTUP_ADDRESS
  IN  /\ process = "running"
      /\ IF secret = Empty
           THEN Abort
           ELSE /\ encryption_secrets' = emplace(encryption_secrets, address, secret)
                /\ encryption_keys' = KeysSet(ENCRYPTION_STARTUP_KEY, address)
                /\ encryption_ivs' = IvsSet(ENCRYPTION_STARTUP_IV, address)
                /\ paired' = paired \cup
                     {<<address, ENCRYPTION_STARTUP_KEY, ENCRYPTION_STARTUP_IV>>}
                /\ UNCHANGED debugVars

wipeDefault ==
  LET address == ENCRYPTION_STARTUP_ADDRESS
  IN  /\ process = "running"
      /\ encryption_keys' = erase(encryption_keys, address)
      /\ encryption_ivs' = erase(encryption_ivs, address)
      /\ encryption_secrets' = erase(encryption_secrets, address)
      /\ UNCHANGED <<paired, debugVars>>

(***************************************************************************)
(* AESEncrypt has the tag written through a pointer it never set.  In      *)
(* AESDecrypt a semicolon ends the test of EVP_DecryptInit_ex, so the code *)
(* cannot_initialize_key_and_iv, which is not legal, is always set.        *)
(***************************************************************************)
Complete(address) ==
  /\ address \in Known
  /\ None \notin {encryption_secrets[address], encryption_keys[address],
                  encryption_ivs[address]}

AESEncrypt(address) ==
  /\ process = "running"
  /\ IF Complete(address) THEN Undefined ELSE Abort

AESDecrypt(address) ==
  /\ process = "running"
  /\ IF Complete(address)
       THEN /\ setReturnCode(encryption_local_errors, cannot_initialize_key_and_iv)
            /\ UNCHANGED stateVars
       ELSE Abort

AESDecryptDefault == AESEncrypt(ENCRYPTION_STARTUP_ADDRESS)

AESEncryptDefault == AESDecrypt(ENCRYPTION_STARTUP_ADDRESS)

----------------------------------------------------------------------------
Next ==
  \/ \E k, v \in Keys, a \in Known \cup {Empty} : setKeys(k, v, a)
  \/ \E a \in Known \cup {Empty} : wipeKeys(a) \/ wipeAddressSecret(a)
  \/ \E a \in Known \cup {Empty}, s \in Secrets \cup {Empty} : addAddressSecret(a, s)
  \/ \E s \in Secrets \cup {Empty} : setDefault(s)
  \/ wipeDefault
  \/ \E a \in Known \cup {Empty} : AESEncrypt(a) \/ AESDecrypt(a)
  \/ AESEncryptDefault \/ AESDecryptDefault

Spec == Init /\ [][Next]_vars

----------------------------------------------------------------------------
(***************************************************************************)
(* Type invariant.                                                         *)
(***************************************************************************)
TypeOK ==
  /\ encryption_secrets \in [Known -> Secrets \cup {None}]
  /\ encryption_keys \in [Known -> GivenKeys \cup {None}]
  /\ encryption_ivs \in [Known -> GivenIvs \cup {None}]
  /\ paired \subseteq Known \X GivenKeys \X GivenIvs
  /\ debug_class_return_code \in {NotSet} \cup LegalCodes(15)
  /\ process \in ProcessStates

(***************************************************************************)
(* The key and the iv of an address were given by one call of setKeys or   *)
(* setDefault, whatever calls set and wiped them in between: the two maps, *)
(* which are changed one after the other, never disagree.                  *)
(***************************************************************************)
KeysComeInPairs ==
  \A a \in Known :
    \/ encryption_keys[a] = None /\ encryption_ivs[a] = None
    \/ <<a, encryption_keys[a], encryption_ivs[a]>> \in paired
============================================================================
