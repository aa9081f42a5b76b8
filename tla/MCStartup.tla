----------------------------- MODULE MCStartup -----------------------------
(***************************************************************************)
(* Small instances of Startup: configurations of at most two [[ca]] and    *)
(* two [[profile]] entries, each alone a reason to start or not to.        *)
(***************************************************************************)
EXTENDS Startup

CONSTANTS a, b, ghost, profile, f1, f2

FromKeyFile(i, f) == [id |-> i, cert |-> "nothing", key |-> "nothing", file |-> f]
FromConfig(i) == [id |-> i, cert |-> "readable", key |-> "readable", file |-> NoFile]

\* One entry, from any source, or two good ones, of one id or one file or not.
Single == {[id |-> a, cert |-> c, key |-> k, file |-> f] :
             c \in {"nothing", "readable", "unset"}, k \in {"nothing", "readable", "garbage"},
             f \in {NoFile, f1}}
Good == {FromKeyFile(a, f1), FromKeyFile(b, f1), FromKeyFile(b, f2), FromConfig(a)}

CaLists == {<<>>} \cup {<<e>> : e \in Single} \cup {<<e, g>> : e, g \in Good}

Open   == [name |-> profile, ca |-> a, challenge |-> "none", secret |-> "nothing"]
Closed == [name |-> profile, ca |-> a, challenge |-> "static", secret |-> "set"]

ProfileLists ==
  {<<Open, Closed>>, <<Closed, Open>>} \cup
  {<<q>> : q \in [name : {profile}, ca : {a, ghost}, challenge : Modes, secret : Secret]}

\* Every list of CAs, and every profile with every setting for Intune.
SomeConfigs ==
  [ca : CaLists, profile : {<<>>}, intune : {"nothing"}] \cup
  [ca : {<<FromKeyFile(a, f1)>>}, profile : ProfileLists, intune : Secret]

\* A key file and nothing else.
OneKeyFile == [ca : {<<FromKeyFile(a, f1)>>}, profile : {<<>>}, intune : {"nothing"}]
=============================================================================
