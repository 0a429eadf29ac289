---------------------- MODULE EncryptionOfflineProofs ----------------------
(***************************************************************************)
(* The theorems about EncryptionOffline: for all addresses, keys, ivs and  *)
(* secrets, and whatever order the calls come in; and the one about        *)
(* TagSearch: for ciphertexts of every length.                             *)
(***************************************************************************)
EXTENDS TagSearch, SequenceTheorems, TLAPS

(***************************************************************************)
(* The inductive invariant.  A key is there exactly when its iv is, which  *)
(* KeysComeInPairs says of the given pairs: emplace then sets both or none.*)
(***************************************************************************)
IInv == TypeOK /\ KeysComeInPairs

----------------------------------------------------------------------------
(***************************************************************************)
(* emplace and erase keep the type of the map of secrets.                  *)
(***************************************************************************)
LEMMA SecretEmplaced ==
  ASSUME encryption_secrets \in [Known -> Secrets \cup {None}],
         NEW address \in Known, NEW secret \in Secrets
  PROVE  emplace(encryption_secrets, address, secret) \in [Known -> Secrets \cup {None}]
BY DEF emplace

LEMMA SecretErased ==
  ASSUME encryption_secrets \in [Known -> Secrets \cup {None}], NEW address
  PROVE  erase(encryption_secrets, address) \in [Known -> Secrets \cup {None}]
BY DEF erase

(***************************************************************************)
(* Setting a key and an iv, or erasing both, keeps them in pairs.          *)
(***************************************************************************)
LEMMA SettingKeepsPairs ==
  ASSUME IInv, NEW key \in GivenKeys, NEW iv \in GivenIvs, NEW address \in Known,
         encryption_keys' = KeysSet(key, address),
         encryption_ivs' = IvsSet(iv, address),
         paired' = paired \cup {<<address, key, iv>>}
  PROVE  /\ encryption_keys' \in [Known -> GivenKeys \cup {None}]
         /\ encryption_ivs' \in [Known -> GivenIvs \cup {None}]
         /\ paired' \subseteq Known \X GivenKeys \X GivenIvs
         /\ KeysComeInPairs'
<1> USE EncryptionAssumption
<1>1. /\ encryption_keys \in [Known -> GivenKeys \cup {None}]
      /\ encryption_ivs \in [Known -> GivenIvs \cup {None}]
      /\ paired \subseteq Known \X GivenKeys \X GivenIvs
  BY DEF IInv, TypeOK
<1>2. /\ encryption_keys' \in [Known -> GivenKeys \cup {None}]
      /\ \A a \in Known : encryption_keys'[a] =
           IF a = address /\ encryption_keys[a] = None THEN key ELSE encryption_keys[a]
  BY <1>1 DEF KeysSet, emplace
<1>3. /\ encryption_ivs' \in [Known -> GivenIvs \cup {None}]
      /\ \A a \in Known : encryption_ivs'[a] =
           IF a = address /\ encryption_ivs[a] = None THEN iv ELSE encryption_ivs[a]
  BY <1>1 DEF IvsSet, emplace
<1>4. paired' \subseteq Known \X GivenKeys \X GivenIvs
  BY <1>1
<1>5. ASSUME NEW a \in Known
      PROVE  \/ encryption_keys'[a] = None /\ encryption_ivs'[a] = None
             \/ <<a, encryption_keys'[a], encryption_ivs'[a]>> \in paired'
  <2>1. CASE encryption_keys[a] = None /\ encryption_ivs[a] = None
    BY <1>2, <1>3, <2>1
  <2>2. CASE <<a, encryption_keys[a], encryption_ivs[a]>> \in paired
    <3>1. encryption_keys[a] # None /\ encryption_ivs[a] # None
      BY <1>1, <2>2
    <3> QED BY <1>2, <1>3, <2>2, <3>1
  <2> QED BY <2>1, <2>2 DEF IInv, KeysComeInPairs
<1> QED BY <1>2, <1>3, <1>4, <1>5 DEF KeysComeInPairs

LEMMA ErasingKeepsPairs ==
  ASSUME IInv, NEW address,
         encryption_keys' = erase(encryption_keys, address),
         encryption_ivs' = erase(encryption_ivs, address),
         paired' = paired
  PROVE  /\ encryption_keys' \in [Known -> GivenKeys \cup {None}]
         /\ encryption_ivs' \in [Known -> GivenIvs \cup {None}]
         /\ KeysComeInPairs'
<1>1. /\ encryption_keys \in [Known -> GivenKeys \cup {None}]
      /\ encryption_ivs \in [Known -> GivenIvs \cup {None}]
  BY DEF IInv, TypeOK
<1>2. /\ encryption_keys' \in [Known -> GivenKeys \cup {None}]
      /\ \A a \in Known : encryption_keys'[a] =
           IF a = address THEN None ELSE encryption_keys[a]
  BY <1>1 DEF erase
<1>3. /\ encryption_ivs' \in [Known -> GivenIvs \cup {None}]
      /\ \A a \in Known : encryption_ivs'[a] =
           IF a = address THEN None ELSE encryption_ivs[a]
  BY <1>1 DEF erase
<1> QED BY <1>2, <1>3 DEF IInv, KeysComeInPairs

(***************************************************************************)
(* Steps that leave the keys alone.                                        *)
(***************************************************************************)
LEMMA OtherStep ==
  ASSUME IInv, UNCHANGED <<encryption_keys, encryption_ivs, paired>>,
         encryption_secrets' \in [Known -> Secrets \cup {None}],
         debug_class_return_code' \in {NotSet} \cup LegalCodes(15),
         process' \in ProcessStates
  PROVE  IInv'
BY DEF IInv, TypeOK, KeysComeInPairs

(***************************************************************************)
(* Every step keeps the invariant.                                         *)
(***************************************************************************)
LEMMA EveryStep == IInv /\ [Next]_vars => IInv'
<1> SUFFICES ASSUME IInv, [Next]_vars PROVE IInv'
  OBVIOUS
<1> USE EncryptionAssumption
<1>0. /\ encryption_secrets \in [Known -> Secrets \cup {None}]
      /\ debug_class_return_code \in {NotSet} \cup LegalCodes(15)
      /\ process \in ProcessStates
  BY DEF IInv, TypeOK
<1>a. CASE Abort \/ Undefined
  BY <1>0, <1>a, OtherStep DEF Abort, Undefined, stateVars, ProcessStates
<1>d. /\ ENCRYPTION_STARTUP_ADDRESS \in Known
      /\ ENCRYPTION_STARTUP_KEY \in GivenKeys
      /\ ENCRYPTION_STARTUP_IV \in GivenIvs
  BY DEF Known, GivenKeys, GivenIvs
<1>1. ASSUME NEW k \in Keys, NEW v \in Keys, NEW a \in Known \cup {Empty},
             setKeys(k, v, a)
      PROVE  IInv'
  <2>1. CASE a = Empty
    BY <1>1, <1>a, <2>1 DEF setKeys
  <2>2. CASE a # Empty
    <3>1. a \in Known /\ k \in GivenKeys /\ v \in GivenIvs
      BY <2>2 DEF GivenKeys, GivenIvs
    <3>2. /\ encryption_keys' = KeysSet(k, a)
          /\ encryption_ivs' = IvsSet(v, a)
          /\ paired' = paired \cup {<<a, k, v>>}
          /\ UNCHANGED <<encryption_secrets, debugVars>>
      BY <1>1, <2>2 DEF setKeys
    <3> QED BY <1>0, <3>1, <3>2, SettingKeepsPairs DEF IInv, TypeOK, debugVars
  <2> QED BY <2>1, <2>2
<1>2. ASSUME NEW a \in Known \cup {Empty}, wipeKeys(a)
      PROVE  IInv'
  BY <1>0, <1>2, ErasingKeepsPairs DEF wipeKeys, IInv, TypeOK, debugVars
<1>3. ASSUME NEW a \in Known \cup {Empty}, wipeAddressSecret(a)
      PROVE  IInv'
  <2>1. erase(encryption_secrets, a) \in [Known -> Secrets \cup {None}]
    BY <1>0, SecretErased
  <2> QED BY <1>0, <1>3, <2>1, OtherStep DEF wipeAddressSecret, debugVars
<1>4. ASSUME NEW a \in Known \cup {Empty}, NEW s \in Secrets \cup {Empty},
             addAddressSecret(a, s)
      PROVE  IInv'
  <2>1. CASE a = Empty \/ s = Empty
    BY <1>4, <1>a, <2>1 DEF addAddressSecret
  <2>2. CASE ~ (a = Empty \/ s = Empty)
    <3>1. emplace(encryption_secrets, a, s) \in [Known -> Secrets \cup {None}]
      BY <1>0, <2>2, SecretEmplaced
    <3> QED BY <1>0, <1>4, <2>2, <3>1, OtherStep DEF addAddressSecret, debugVars
  <2> QED BY <2>1, <2>2
<1>5. ASSUME NEW s \in Secrets \cup {Empty}, setDefault(s)
      PROVE  IInv'
  <2>1. CASE s = Empty
    BY <1>5, <1>a, <2>1 DEF setDefault
  <2>2. CASE s # Empty
    <3> DEFINE a == ENCRYPTION_STARTUP_ADDRESS
    <3>1. /\ encryption_secrets' = emplace(encryption_secrets, a, s)
          /\ encryption_keys' = KeysSet(ENCRYPTION_STARTUP_KEY, a)
          /\ encryption_ivs' = IvsSet(ENCRYPTION_STARTUP_IV, a)
          /\ paired' = paired \cup {<<a, ENCRYPTION_STARTUP_KEY, ENCRYPTION_STARTUP_IV>>}
          /\ UNCHANGED debugVars
      BY <1>5, <2>2 DEF setDefault
    <3>2. encryption_secrets' \in [Known -> Secrets \cup {None}]
      BY <1>0, <1>d, <2>2, <3>1, SecretEmplaced
    <3> QED BY <1>0, <1>d, <3>1, <3>2, SettingKeepsPairs DEF IInv, TypeOK, debugVars
  <2> QED BY <2>1, <2>2
<1>6. CASE wipeDefault
  <2>1. erase(encryption_secrets, ENCRYPTION_STARTUP_ADDRESS)
          \in [Known -> Secrets \cup {None}]
    BY <1>0, SecretErased
  <2> QED BY <1>0, <1>6, <2>1, ErasingKeepsPairs DEF wipeDefault, IInv, TypeOK, debugVars
<1>7. ASSUME NEW a, AESEncrypt(a)
      PROVE  IInv'
  BY <1>7, <1>a DEF AESEncrypt
<1>8. ASSUME NEW a, AESDecrypt(a)
      PROVE  IInv'
  <2>1. CASE Complete(a)
    <3>1. cannot_initialize_key_and_iv \notin LegalCodes(Len(encryption_local_errors))
      BY DEF cannot_initialize_key_and_iv, LegalCodes, debug_standard_max_error,
         debug_class_min_error, encryption_local_errors
    <3> QED
      BY <1>0, <1>8, <2>1, <3>1, OtherStep DEF AESDecrypt, setReturnCode, stateVars,
         ProcessStates
  <2>2. CASE ~ Complete(a)
    BY <1>8, <1>a, <2>2 DEF AESDecrypt
  <2> QED BY <2>1, <2>2
<1>9. CASE UNCHANGED vars
  BY <1>0, <1>9, OtherStep DEF vars, stateVars, debugVars
<1> QED
  BY <1>1, <1>2, <1>3, <1>4, <1>5, <1>6, <1>7, <1>8, <1>9
     DEF Next, AESEncryptDefault, AESDecryptDefault

(***************************************************************************)
(* The inductive invariant holds in every reachable state.                 *)
(***************************************************************************)
LEMMA InvariantHolds == Spec => []IInv
<1>1. Init => IInv
  BY DEF Init, InitDebug, IInv, TypeOK, KeysComeInPairs, ProcessStates
<1>2. IInv /\ [Next]_vars => IInv'
  BY EveryStep
<1> QED BY <1>1, <1>2, PTL DEF Spec

(***************************************************************************)
(* The maps of encryption_offline keep their types, and only legal codes   *)
(* are ever set.                                                           *)
(***************************************************************************)
THEOREM TypeCorrect == Spec => []TypeOK
<1>1. IInv => TypeOK
  BY DEF IInv
<1> QED BY <1>1, InvariantHolds, PTL

(***************************************************************************)
(* The key and the iv that AESEncrypt and AESDecrypt take from the two     *)
(* maps for an address were given together.                                *)
(***************************************************************************)
THEOREM KeysAndIvsBelongTogether == Spec => []KeysComeInPairs
<1>1. IInv => KeysComeInPairs
  BY DEF IInv
<1> QED BY <1>1, InvariantHolds, PTL

----------------------------------------------------------------------------
(***************************************************************************)
(* The starts, from 0, of the delimeters of a ciphertext, but for one at   *)
(* its very start.                                                         *)
(***************************************************************************)
DelimeterStarts ==
  {p \in 1 .. Len(in) - Len(TAG_DELIMETER) :
     SubSeq(in, p + 1, p + Len(TAG_DELIMETER)) = TAG_DELIMETER}

(***************************************************************************)
(* The search finds what follows the last of these, overlapping ones       *)
(* included, and fails exactly when there is none: the loop does not read  *)
(* the first byte.                                                         *)
(***************************************************************************)
LastDelimeterFound ==
  /\ result # NULL =>
       /\ result - Len(TAG_DELIMETER) \in DelimeterStarts
       /\ \A p \in DelimeterStarts : p <= result - Len(TAG_DELIMETER)
  /\ process # "running" => DelimeterStarts = {}

(***************************************************************************)
(* A delimeter starts where two newlines follow one another.               *)
(***************************************************************************)
TwoNewlines(p) == in[p + 1] = Newline /\ in[p + 2] = Newline

(***************************************************************************)
(* The inductive invariant of the search.  Before it ends, the bytes of    *)
(* the delimeter that have been matched follow the index, and no delimeter *)
(* starts further on than the one that is being matched would; when it has *)
(* been matched, its start is not that of the ciphertext.                  *)
(***************************************************************************)
SearchTypeOK ==
  /\ in \in Seq(Bytes)
  /\ process \in {"running", "aborted"}
  /\ size \in Int /\ size <= Len(in)
  /\ i \in -1 .. LastIndex
  /\ result \in Int

NoneFurtherOn == \A p \in DelimeterStarts : p <= size - 1 - i

MatchedBytesFollow ==
  \A k \in 1 .. LastIndex - i : size + k <= Len(in) /\ in[size + k] = Newline

FirstByteUnread == i = -1 => size >= 1

SearchInv ==
  /\ SearchTypeOK
  /\ Searching => NoneFurtherOn /\ MatchedBytesFollow /\ FirstByteUnread
  /\ LastDelimeterFound

(***************************************************************************)
(* What DelimeterStarts says of the bytes of the ciphertext.               *)
(***************************************************************************)
LEMMA StartsAreTwoNewlines ==
  ASSUME in \in Seq(Bytes)
  PROVE  DelimeterStarts = {p \in 1 .. Len(in) - 2 : TwoNewlines(p)}
<1>1. Len(in) \in Nat /\ \A k \in 1 .. Len(in) : in[k] \in Bytes
  BY LenProperties, ElementOfSeq
<1>2. ASSUME NEW p \in 1 .. Len(in) - 2
      PROVE  SubSeq(in, p + 1, p + 2) = TAG_DELIMETER <=> TwoNewlines(p)
  <2> DEFINE s == SubSeq(in, p + 1, p + 2)
  <2>1. /\ s \in Seq(Bytes) /\ Len(s) = 2
        /\ s[1] = in[p + 1] /\ s[2] = in[p + 2]
    <3>1. \A k \in p + 1 .. p + 2 : in[k] \in Bytes
      BY <1>1
    <3>2. /\ s \in Seq(Bytes)
          /\ Len(s) = (IF p + 1 <= p + 2 THEN (p + 2) - (p + 1) + 1 ELSE 0)
          /\ \A k \in 1 .. (p + 2) - (p + 1) + 1 : s[k] = in[p + 1 + k - 1]
      BY <1>1, <3>1, SubSeqProperties
    <3> HIDE DEF s
    <3>3. s[1] = in[p + 1 + 1 - 1] /\ s[2] = in[p + 1 + 2 - 1]
      BY <3>2
    <3>4. p + 1 + 1 - 1 = p + 1 /\ p + 1 + 2 - 1 = p + 2 /\ Len(s) = 2
      BY <3>2
    <3> QED BY <3>2, <3>3, <3>4
  <2>2. /\ TAG_DELIMETER \in Seq(Bytes) /\ Len(TAG_DELIMETER) = 2
        /\ TAG_DELIMETER[1] = Newline /\ TAG_DELIMETER[2] = Newline
    BY DEF TAG_DELIMETER, Bytes
  <2> HIDE DEF s
  <2>3. TwoNewlines(p) => s = TAG_DELIMETER
    <3>1. \A k \in 1 .. 2 : k = 1 \/ k = 2
      OBVIOUS
    <3> QED BY <2>1, <2>2, <3>1, SeqEqual DEF TwoNewlines
  <2>4. s = TAG_DELIMETER => TwoNewlines(p)
    BY <2>1, <2>2 DEF TwoNewlines
  <2> QED BY <2>3, <2>4 DEF s
<1>3. Len(TAG_DELIMETER) = 2
  BY DEF TAG_DELIMETER
<1> QED BY <1>2, <1>3 DEF DelimeterStarts

(***************************************************************************)
(* The search starts with nothing matched.                                 *)
(***************************************************************************)
LEMMA SearchStarts == SearchInit => SearchInv
<1> SUFFICES ASSUME SearchInit PROVE SearchInv
  OBVIOUS
<1>1. in \in Seq(Bytes)
  BY DEF SearchInit, BoundedSeq, SeqOf
<1>2. /\ LastIndex = 1 /\ i = 1 /\ size = Len(in) /\ Len(in) \in Nat
      /\ result = NULL /\ process = "running"
  BY <1>1, LenProperties DEF SearchInit, LastIndex, TAG_DELIMETER, Init, InitDebug
<1>3. NoneFurtherOn
  BY <1>1, <1>2, StartsAreTwoNewlines DEF NoneFurtherOn
<1> QED
  BY <1>1, <1>2, <1>3
     DEF SearchInv, SearchTypeOK, MatchedBytesFollow, FirstByteUnread,
         LastDelimeterFound, NULL

(***************************************************************************)
(* A byte that matches makes the delimeter that is being matched one byte  *)
(* longer.  After one that does not, no delimeter can start at its index,  *)
(* nor one byte before: the loop may forget what it matched, although the  *)
(* delimeters of a run of newlines overlap.                                *)
(***************************************************************************)
LEMMA CompareByteStep == SearchInv /\ compareByte => SearchInv'
<1> SUFFICES ASSUME SearchInv, compareByte PROVE SearchInv'
  OBVIOUS
<1>0. LastIndex = 1 /\ TAG_DELIMETER[1] = Newline /\ TAG_DELIMETER[2] = Newline
  BY DEF LastIndex, TAG_DELIMETER
<1>1. /\ in \in Seq(Bytes) /\ size \in Int /\ i \in {0, 1} /\ size >= 2
      /\ size <= Len(in) /\ process = "running" /\ result = NULL
      /\ NoneFurtherOn /\ MatchedBytesFollow
  BY <1>0 DEF SearchInv, SearchTypeOK, compareByte, GoesOn, Searching
<1>2. /\ size' = size - 1 /\ in' = in /\ result' = result /\ process' = process
      /\ i' = IF in[size] = Newline THEN i - 1 ELSE 1
  BY <1>0, <1>1 DEF compareByte, Unmatched, vars, debugVars
<1>3. Len(in) \in Nat
  BY <1>1, LenProperties
<1>4. DelimeterStarts' = DelimeterStarts
  BY <1>2 DEF DelimeterStarts
<1>5. NoneFurtherOn'
  <2> SUFFICES ASSUME NEW p \in DelimeterStarts PROVE p <= size' - 1 - i'
    BY <1>4 DEF NoneFurtherOn
  <2>1. p \in Int /\ in[p + 1] = Newline /\ in[p + 2] = Newline /\ p <= size - 1 - i
    BY <1>1, StartsAreTwoNewlines DEF NoneFurtherOn, TwoNewlines
  <2>2. CASE in[size] = Newline
    BY <1>1, <1>2, <2>1, <2>2
  <2>3. CASE in[size] # Newline
    <3>1. p + 1 # size /\ p + 2 # size
      BY <2>1, <2>3
    <3> QED BY <1>1, <1>2, <2>1, <2>3, <3>1
  <2> QED BY <2>2, <2>3
<1>6. MatchedBytesFollow'
  <2> SUFFICES ASSUME NEW k \in 1 .. LastIndex - i'
               PROVE  size' + k <= Len(in) /\ in[size' + k] = Newline
    BY <1>2 DEF MatchedBytesFollow, LastIndex, TAG_DELIMETER
  <2>1. in[size] = Newline /\ i' = i - 1
    BY <1>0, <1>1, <1>2
  <2>2. CASE k = 1
    BY <1>1, <1>2, <1>3, <2>1, <2>2
  <2>3. CASE k # 1
    <3>1. k - 1 \in 1 .. LastIndex - i
      BY <1>0, <1>1, <2>1, <2>3
    <3>2. size + (k - 1) <= Len(in) /\ in[size + (k - 1)] = Newline
      BY <1>1, <3>1 DEF MatchedBytesFollow
    <3>3. size' + k = size + (k - 1)
      BY <1>1, <1>2
    <3> QED BY <3>2, <3>3
  <2> QED BY <2>2, <2>3
<1>7. SearchTypeOK'
  BY <1>0, <1>1, <1>2, <1>3 DEF SearchTypeOK, LastIndex, TAG_DELIMETER, NULL
<1>8. FirstByteUnread' /\ LastDelimeterFound'
  BY <1>1, <1>2 DEF FirstByteUnread, LastDelimeterFound
<1> QED BY <1>5, <1>6, <1>7, <1>8 DEF SearchInv

(***************************************************************************)
(* After the loop the start of a delimeter that was matched is the last    *)
(* one; and if none was, there is none.                                    *)
(***************************************************************************)
LEMMA LoopEndsStep == SearchInv /\ loopEnds => SearchInv'
<1> SUFFICES ASSUME SearchInv, loopEnds PROVE SearchInv'
  OBVIOUS
<1>0. LastIndex = 1 /\ Len(TAG_DELIMETER) = 2
  BY DEF LastIndex, TAG_DELIMETER
<1>1. /\ in \in Seq(Bytes) /\ size \in Int /\ i \in -1 .. 1 /\ size <= Len(in)
      /\ process = "running" /\ result = NULL
      /\ NoneFurtherOn /\ MatchedBytesFollow /\ FirstByteUnread
      /\ i = -1 \/ size <= 1
      /\ in' = in /\ i' = i
  BY <1>0 DEF SearchInv, SearchTypeOK, loopEnds, GoesOn, Searching
<1>2. DelimeterStarts' = DelimeterStarts /\ Len(in) \in Nat
  BY <1>1, LenProperties DEF DelimeterStarts
<1>3. DelimeterStarts \in SUBSET Int
      /\ \A p \in DelimeterStarts : p >= 1 /\ p <= size - 1 - i
  BY <1>1, StartsAreTwoNewlines DEF NoneFurtherOn
<1>4. CASE i = -1
  <2>1. /\ size >= 1
        /\ size + 1 <= Len(in) /\ in[size + 1] = Newline
        /\ size + 2 <= Len(in) /\ in[size + 2] = Newline
    BY <1>0, <1>1, <1>4 DEF FirstByteUnread, MatchedBytesFollow
  <2>2. size \in DelimeterStarts
    BY <1>1, <1>2, <2>1, StartsAreTwoNewlines DEF TwoNewlines
  <2>3. \A p \in DelimeterStarts : p <= size
    BY <1>1, <1>3, <1>4
  <2>4. /\ size' = size /\ result' = size + 2 /\ process' = "running"
    BY <1>0, <1>1, <1>2, <1>4, <2>1 DEF loopEnds, vars, debugVars
  <2>5. LastDelimeterFound'
    <3>1. result' - 2 = size
      BY <1>1, <2>4
    <3> QED BY <1>0, <1>2, <2>2, <2>3, <2>4, <3>1 DEF LastDelimeterFound, TAG_DELIMETER
  <2>6. ~ Searching'
    BY <1>1, <2>1, <2>4 DEF Searching, NULL
  <2> QED
    BY <1>0, <1>1, <2>4, <2>5, <2>6 DEF SearchInv, SearchTypeOK, LastIndex, TAG_DELIMETER
<1>5. CASE i # -1
  <2>1. DelimeterStarts = {}
    BY <1>1, <1>3, <1>5
  <2>2. improper_ciphertext_format \notin LegalCodes(Len(encryption_local_errors))
    BY DEF improper_ciphertext_format, LegalCodes, debug_standard_max_error,
       debug_class_min_error, encryption_local_errors
  <2>3. size' = size - 1 /\ result' = result /\ process' = "aborted"
    BY <1>1, <1>5, <2>2 DEF loopEnds, setReturnCode
  <2>4. LastDelimeterFound'
    BY <1>1, <1>2, <2>1, <2>3 DEF LastDelimeterFound, NULL
  <2>5. ~ Searching'
    BY <2>3 DEF Searching
  <2> QED
    BY <1>0, <1>1, <1>2, <2>3, <2>4, <2>5
       DEF SearchInv, SearchTypeOK, LastIndex, TAG_DELIMETER
<1> QED BY <1>4, <1>5

(***************************************************************************)
(* A tag that insertTag appended to a ciphertext: before it stands a       *)
(* delimeter, and none starts further on when the tag is unambiguous.      *)
(***************************************************************************)
LEMMA TagFollowsItsDelimeter ==
  ASSUME in \in Seq(Bytes), NEW k \in DOMAIN in,
         in = insertTag(SubSeq(in, 1, k), SubSeq(in, k + 3, Len(in))),
         Unambiguous(SubSeq(in, k + 3, Len(in)))
  PROVE  k \in DelimeterStarts /\ \A p \in DelimeterStarts : p <= k
<1> DEFINE c == SubSeq(in, 1, k)
           t == SubSeq(in, k + 3, Len(in))
           d == c \o TAG_DELIMETER
<1>1. /\ Len(in) \in Nat /\ k \in 1 .. Len(in)
      /\ \A j \in 1 .. Len(in) : in[j] \in Bytes
  BY LenProperties, ElementOfSeq
<1>2. c \in Seq(Bytes) /\ Len(c) = k
  <2>1. \A j \in 1 .. k : in[j] \in Bytes
    BY <1>1
  <2> QED BY <1>1, <2>1, SubSeqProperties
<1>3. /\ t \in Seq(Bytes)
      /\ Len(t) = IF k + 3 <= Len(in) THEN Len(in) - k - 2 ELSE 0
      /\ \A j \in 1 .. Len(in) - k - 2 : t[j] = in[k + 2 + j]
  <2>1. \A j \in k + 3 .. Len(in) : in[j] \in Bytes
    BY <1>1
  <2>2. /\ t \in Seq(Bytes)
        /\ Len(t) = IF k + 3 <= Len(in) THEN Len(in) - (k + 3) + 1 ELSE 0
        /\ \A j \in 1 .. Len(in) - (k + 3) + 1 : t[j] = in[(k + 3) + j - 1]
    BY <1>1, <2>1, SubSeqProperties
  <2> HIDE DEF t
  <2>3. ASSUME NEW j \in 1 .. Len(in) - k - 2 PROVE t[j] = in[k + 2 + j]
    <3>1. j \in 1 .. Len(in) - (k + 3) + 1 /\ (k + 3) + j - 1 = k + 2 + j
      BY <1>1
    <3> QED BY <2>2, <3>1
  <2>4. Len(in) - (k + 3) + 1 = Len(in) - k - 2
    BY <1>1
  <2> QED BY <2>2, <2>3, <2>4
<1>4. /\ TAG_DELIMETER \in Seq(Bytes) /\ Len(TAG_DELIMETER) = 2
      /\ TAG_DELIMETER[1] = Newline /\ TAG_DELIMETER[2] = Newline
  BY DEF TAG_DELIMETER, Bytes
<1>5. in = d \o t
  BY DEF insertTag
<1>6. /\ d \in Seq(Bytes) /\ Len(d) = k + 2
      /\ d[k + 1] = Newline /\ d[k + 2] = Newline
  <2> HIDE DEF c
  <2>1. /\ d \in Seq(Bytes) /\ Len(d) = Len(c) + Len(TAG_DELIMETER)
        /\ \A j \in 1 .. Len(c) + Len(TAG_DELIMETER) :
             d[j] = IF j <= Len(c) THEN c[j] ELSE TAG_DELIMETER[j - Len(c)]
    BY <1>2, <1>4, ConcatProperties
  <2>2. /\ d[k + 1] = TAG_DELIMETER[(k + 1) - k]
        /\ d[k + 2] = TAG_DELIMETER[(k + 2) - k]
    BY <1>1, <1>2, <1>4, <2>1
  <2>3. (k + 1) - k = 1 /\ (k + 2) - k = 2
    BY <1>1
  <2> QED BY <1>2, <1>4, <2>1, <2>2, <2>3
<1>7. /\ Len(in) = k + 2 + Len(t)
      /\ in[k + 1] = Newline /\ in[k + 2] = Newline
  <2> HIDE DEF d, t
  <2>1. /\ Len(d \o t) = Len(d) + Len(t)
        /\ \A j \in 1 .. Len(d) + Len(t) :
             (d \o t)[j] = IF j <= Len(d) THEN d[j] ELSE t[j - Len(d)]
    BY <1>3, <1>6, ConcatProperties
  <2>2. Len(t) \in Nat
    BY <1>3, LenProperties
  <2> QED BY <1>1, <1>5, <1>6, <2>1, <2>2
<1> HIDE DEF c, d
<1>8. k \in DelimeterStarts
  <2>1. Len(t) \in Nat
    BY <1>3, LenProperties
  <2> HIDE DEF t
  <2> QED BY <1>1, <1>7, <2>1, StartsAreTwoNewlines DEF TwoNewlines
<1>9. ASSUME NEW p \in DelimeterStarts, p > k PROVE FALSE
  <2>1. p \in Nat /\ p <= Len(in) - 2 /\ in[p + 1] = Newline /\ in[p + 2] = Newline
    BY <1>1, StartsAreTwoNewlines DEF TwoNewlines
  <2>2. Unambiguous(t) /\ DOMAIN t = 1 .. Len(t) /\ Len(t) \in Nat
    BY <1>3, LenProperties
  <2> HIDE DEF t
  <2>3. Len(t) = Len(in) - k - 2 /\ k \in Nat
    BY <1>1, <1>7, <2>2
  <2>4. PICK j \in 1 .. Len(t) : j = p - k
    BY <1>9, <2>1, <2>2, <2>3
  <2>i. p \in Int /\ k \in Int /\ j \in Int
    BY <2>1, <2>2, <2>3, <2>4
  <2>5. t[j] = Newline
    <3>1. k + 2 + j = p + 2
      BY <2>i, <2>4
    <3> QED BY <1>3, <2>1, <2>3, <2>4, <3>1
  <2>6. j > 1 /\ t[j - 1] # Newline
    BY <2>2, <2>4, <2>5 DEF Unambiguous
  <2>7. PICK l \in 1 .. Len(t) : l = j - 1
    BY <2>2, <2>4, <2>6
  <2>8. t[l] = Newline
    <3>1. k + 2 + l = p + 1
      BY <2>i, <2>4, <2>7
    <3> QED BY <1>3, <2>1, <2>3, <2>7, <3>1
  <2> QED BY <2>6, <2>7, <2>8
<1> QED
  <2>1. \A p \in DelimeterStarts : p \in Nat
    BY <1>1, StartsAreTwoNewlines
  <2> QED BY <1>1, <1>8, <1>9, <2>1

(***************************************************************************)
(* In a ciphertext of any length that is not empty, with delimeters of its *)
(* own or not, getTagOffsetAndSplice finds the unambiguous tag that        *)
(* insertTag appended, and what it finds in any bytes follows a delimeter. *)
(***************************************************************************)
THEOREM SearchIsCorrect == SearchSpec => []TagIsFound
<1>1. SearchInv /\ [SearchNext]_<<vars, searchVars>> => SearchInv'
  <2>1. SearchInv /\ UNCHANGED <<vars, searchVars>> => SearchInv'
    BY DEF SearchInv, SearchTypeOK, Searching, NoneFurtherOn, MatchedBytesFollow,
       FirstByteUnread, LastDelimeterFound, DelimeterStarts, vars,
       debugVars, searchVars, LastIndex, TAG_DELIMETER
  <2> QED BY <2>1, CompareByteStep, LoopEndsStep DEF SearchNext
<1>2. SearchInv => TagIsFound
  <2> SUFFICES ASSUME SearchInv PROVE TagIsFound
    OBVIOUS
  <2>1. /\ in \in Seq(Bytes) /\ LastDelimeterFound
        /\ Len(in) \in Nat
    BY LenProperties DEF SearchInv, SearchTypeOK
  <2>2. /\ Len(TAG_DELIMETER) = 2 /\ DOMAIN TAG_DELIMETER = {1, 2}
        /\ TAG_DELIMETER[1] = Newline /\ TAG_DELIMETER[2] = Newline
    BY DEF TAG_DELIMETER
  <2>3. ASSUME result # NULL
        PROVE  /\ result - 2 \in 0 .. Len(in) - 2
               /\ in[result - 2 + 1] = Newline /\ in[result - 2 + 2] = Newline
    BY <2>1, <2>2, <2>3, StartsAreTwoNewlines DEF LastDelimeterFound, TwoNewlines
  <2>4. ASSUME NEW k \in DOMAIN in,
               in = insertTag(SubSeq(in, 1, k), SubSeq(in, k + 2 + 1, Len(in))),
               Unambiguous(SubSeq(in, k + 2 + 1, Len(in)))
        PROVE  process = "running" /\ result \in {NULL, k + 2}
    <3>1. k + 2 + 1 = k + 3 /\ k \in Nat
      BY <2>1, LenProperties
    <3>2. k \in DelimeterStarts /\ \A p \in DelimeterStarts : p <= k
      BY <2>1, <2>4, <3>1, TagFollowsItsDelimeter
    <3>3. process = "running"
      BY <2>1, <3>2 DEF LastDelimeterFound
    <3>4. ASSUME result # NULL PROVE result = k + 2
      <4>1. result - 2 \in DelimeterStarts /\ k <= result - 2
        BY <2>1, <2>2, <3>2, <3>4 DEF LastDelimeterFound
      <4>2. result - 2 <= k
        BY <3>2, <4>1
      <4> QED BY <3>1, <4>1, <4>2 DEF SearchInv, SearchTypeOK
    <3> QED BY <3>3, <3>4
  <2> QED BY <2>2, <2>3, <2>4 DEF TagIsFound
<1> QED BY <1>1, <1>2, SearchStarts, PTL DEF SearchSpec
============================================================================
