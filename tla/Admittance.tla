----------------------------- MODULE Admittance -----------------------------
(***************************************************************************)
(* Which outputs the topic managers admit (pkg/shared/admittance.go and      *)
(* pkg/utils/helpers.go).                                                   *)
(***************************************************************************)
EXTENDS Uri

(***************************************************************************)
(* The two protocols, by the name of their lookup service.                  *)
(***************************************************************************)
Services == {"ls_ship", "ls_slap"}

Topic      == [ls_ship |-> "tm_ship", ls_slap |-> "tm_slap"]
Identifier == [ls_ship |-> "SHIP",    ls_slap |-> "SLAP"]
NamePrefix == [ls_ship |-> "tm_",     ls_slap |-> "ls_"]

(***************************************************************************)
(* What a locking script is to the code: does it decode as a PushDrop       *)
(* token, into how many fields, which protocol does the first field name,   *)
(* which URI is the third, is the fourth a valid topic or service name and   *)
(* with which prefix?  Of the signature: is the second field a public key,   *)
(* is the last one a signature by that key over the fields before it, and    *)
(* is the token locked to the key derived from it?                          *)
(***************************************************************************)
Token == [decodes : BOOLEAN, fields : Nat, identifier : {"SHIP", "SLAP", "other"},
          uri : URI, name : {"tm_", "ls_", "invalid"},
          key : BOOLEAN, signature : {"unreadable", "wrong", "right"}, derived : BOOLEAN]

IsTokenSignatureCorrectlyLinked(k) ==
    CASE k.fields < 3 \/ k.identifier = "other" \/ ~k.key \/ k.signature = "unreadable" -> "error"
      [] OTHER -> IF k.signature = "right" /\ k.derived THEN "valid" ELSE "invalid"

\* Fault: a token of three fields is admitted too.
FewerFields(s, k) ==
    /\ k.decodes
    /\ k.fields \in {3, 5}
    /\ k.identifier = Identifier[s]
    /\ IsAdvertisableURI(k.uri)
    /\ k.name = NamePrefix[s]
    /\ IsTokenSignatureCorrectlyLinked(k) = "valid"


\* validateOutput: the signature is the fifth field.
ValidOutput(s, k) ==
    /\ k.decodes
    /\ k.fields = 5
    /\ k.identifier = Identifier[s]
    /\ IsAdvertisableURI(k.uri)
    /\ k.name = NamePrefix[s]
    /\ IsTokenSignatureCorrectlyLinked(k) = "valid"
=============================================================================
