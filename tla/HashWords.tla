------------------------------ MODULE HashWords ------------------------------
(***************************************************************************)
(* The vocabulary of structured data: types and fields, and the words that *)
(* an encoding consists of.  A type is a base type or an array of it.  A   *)
(* word is a value with its type, or a hash, which is taken to determine   *)
(* what is hashed.  What raises an exception is the word Raised.           *)
(***************************************************************************)
EXTENDS Integers, SequencesExt

Type(base) == [base |-> base, array |-> FALSE]
ArrayOf(base) == [base |-> base, array |-> TRUE]
Field(name, type) == [name |-> name, type |-> type]

Raised == [raised |-> TRUE]

Raises(words) == \E i \in DOMAIN words : words[i] = Raised

Sha3(words) == IF Raises(words) THEN Raised ELSE [sha3 |-> words]

\* The digest that is signed: the hashes of the domain and of the message.
Digest(domainHash, messageHash) ==
  Sha3(<<[prefix |-> "1901"], domainHash, messageHash>>)

=============================================================================
