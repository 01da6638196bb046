------------------------------ MODULE MCGuard ------------------------------
(***************************************************************************)
(* Small instances of Guard: the rule over a class, permits asked for by  *)
(* name and by effect; a rule over a device; and one over a secret that is *)
(* sent to somebody.                                                       *)
(***************************************************************************)
EXTENDS Guard, TLC

MCNameWithin(a, b) == a = b

MCRule == {[class |-> "declassify", name |-> AnyName]}
MCEdit == [rule : MCRule, tier : {Free, Warn, Sealed}]
MCSubset == {{[class |-> "declassify", name |-> "key"]}, {[class |-> "effect", name |-> "Declassify"]}}
MCGrant == {{[class |-> "declassify", name |-> "key"], [class |-> "effect", name |-> "Declassify"]}}
MCUse == {[class |-> "declassify", name |-> "key"]}

\* A device under a rule, and a permit that has nothing to do with it.
DeviceRule == {[class |-> "declassify", name |-> AnyName], [class |-> "device", name |-> AnyName]}
DeviceEdit == {[rule |-> [class |-> "device", name |-> AnyName], tier |-> Guarded]}
DeviceSubset == {{[class |-> "fs_read", name |-> "data"]}}
DeviceGrant == {{[class |-> "device", name |-> "arm"], [class |-> "effect", name |-> "Actuate"]}}
DeviceUse == {[class |-> "device", name |-> "arm"]}

\* A secret, and its being sent to somebody.
SendWithin(a, b) == a = b \/ (a = "key@host" /\ b = "key")
SendRule == {[class |-> "declassify", name |-> "key"]}
SendEdit == [rule : SendRule, tier : {Guarded, Sealed}]
SendSubset == {{[class |-> "declassify", name |-> "key@host"]}}
SendUse == {[class |-> "declassify", name |-> "key@host"]}
SendGrant == {{[class |-> "declassify", name |-> "key@host"], [class |-> "effect", name |-> "Declassify"]}}

Symmetry == Permutations(Node)
=============================================================================
