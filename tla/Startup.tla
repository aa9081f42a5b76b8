------------------------------ MODULE Startup ------------------------------
(***************************************************************************)
(* From main to the first request: src/config.rs (validate, and where the  *)
(* material of a CA comes from) and src/app.rs (build_state), which loads  *)
(* every CA or, when its key file is missing, generates one and writes it. *)
(*                                                                         *)
(* A process reads and writes files step by step; it may be killed between *)
(* two steps, and another process may be starting on the same files.       *)
(***************************************************************************)
EXTENDS Naturals, Sequences

CONSTANTS
  Processes,   \* runs of the program, one after the other or at once
  Overlap,     \* whether a process may start while another one is there
  CaIds,       \* ids of [[ca]] entries
  Names,       \* names of [[profile]] entries
  Files,       \* key files
  Configs,     \* what the configuration may say
  NoFile,      \* no key_file
  NoCa,        \* no CA of that id
  NoProfile,   \* no profile of that name
  NoConfig,    \* not read yet
  Absent,      \* the file does not exist
  Own,         \* a key pair that the operator provides
  Missing      \* this part is not in the file

\* What a setting says: nothing, a value that can be read or not, or the name
\* of an environment variable that is not set.
Given == {"nothing", "readable", "garbage", "unset"}
Secret == {"nothing", "set", "unset"}
Modes == {"static", "intune", "none"}

Entry   == [id : CaIds, cert : Given, key : Given, file : Files \cup {NoFile}]
Profile == [name : Names, ca : CaIds, challenge : Modes, secret : Secret]
Config  == [ca : Seq(Entry), profile : Seq(Profile), intune : Secret]

ASSUME OverlapAssumption == Overlap \in BOOLEAN
ASSUME ConfigsAssumption == Configs \subseteq Config
ASSUME NoFileAssumption == NoFile \notin Files

\* A pair that was generated is named after the process and the entry.
Pairs == (Processes \X Nat) \cup {Own}

\* A key file is a certificate followed by a private key; what is not, or not
\* completely, written is missing.
Content == [cert : Pairs \cup {Missing}, key : Pairs \cup {Missing}]

Whole(x) == [cert |-> x, key |-> x]

\* A CA in memory and the file it is kept in, a profile in memory.
Ca == [cert : Pairs, key : Pairs, file : Files \cup {NoFile}]
Runtime == [ca : CaIds, challenge : Modes]

ASSUME MissingAssumption == Missing \notin Pairs
ASSUME AbsentAssumption == Absent \notin Content
ASSUME NoCaAssumption == NoCa \notin Ca
ASSUME NoProfileAssumption == NoProfile \notin Runtime

VARIABLES
  files,     \* the key files
  pc,        \* pc[p]: where the process p is
  config,    \* config[p]: the configuration it has read
  next,      \* next[p]: the [[ca]] or [[profile]] entry it is at
  cas,       \* cas[p]: the CAs it has, the first map of build_state
  profiles,  \* profiles[p]: the profiles it has, the second
  fate       \* fate[p]: why it gave up, if it did (history)

vars == <<files, pc, config, next, cas, profiles, fate>>

Phases == {"down",
           "loading",      \* at a [[ca]] entry
           "reading",      \* its key file exists
           "generating",   \* it does not
           "writingCert", "writingKey",
           "wiring",       \* every CA is there; at a [[profile]] entry
           "serving", "ended"}

Running == Phases \ {"down", "ended"}

\* Where a process gave up.
Fates == {"none",
          "refused",    \* validate
          "material",   \* a [[ca]] entry has none that can be used
          "secret",     \* that of Intune is not set
          "validator",  \* build_validator, of a [[profile]] entry
          "outside"}    \* files, database or network

TypeOK ==
  /\ files \in [Files -> Content \cup {Absent}]
  /\ pc \in [Processes -> Phases]
  /\ config \in [Processes -> Configs \cup {NoConfig}]
  /\ next \in [Processes -> Nat]
  /\ cas \in [Processes -> [CaIds -> Ca \cup {NoCa}]]
  /\ profiles \in [Processes -> [Names -> Runtime \cup {NoProfile}]]
  /\ fate \in [Processes -> Fates]

\* The operator may have provided a key file.
Init ==
  /\ files \in [Files -> {Absent, Whole(Own)}]
  /\ pc = [p \in Processes |-> "down"]
  /\ config = [p \in Processes |-> NoConfig]
  /\ next = [p \in Processes |-> 1]
  /\ cas = [p \in Processes |-> [i \in CaIds |-> NoCa]]
  /\ profiles = [p \in Processes |-> [n \in Names |-> NoProfile]]
  /\ fate = [p \in Processes |-> "none"]

-----------------------------------------------------------------------------
(***************************************************************************)
(* The configuration.                                                      *)
(***************************************************************************)

\* One part of the inline material is configured and the other is not.
HalfInline(e) == (e.cert = "nothing") # (e.key = "nothing")

HasSource(e) ==
  \/ e.cert # "nothing" /\ e.key # "nothing"
  \/ e.file # NoFile

\* The CA that a profile names is configured, and so is what its mode needs.
Known(c, profile) == \E i \in DOMAIN c.ca : c.ca[i].id = profile.ca

Equipped(c, profile) ==
  /\ profile.challenge = "static" => profile.secret # "nothing"
  /\ profile.challenge = "intune" => c.intune # "nothing"

\* Mutated form of Valid: the CAs of the profiles are not looked up.
ValidUnknown(c) ==
  /\ c.ca # <<>>
  /\ \A i \in DOMAIN c.ca : HasSource(c.ca[i])
  /\ \A j \in DOMAIN c.profile : Equipped(c, c.profile[j])

Valid(c) ==
  /\ c.ca # <<>>
  /\ \A i \in DOMAIN c.ca : HasSource(c.ca[i])
  /\ \A j \in DOMAIN c.profile : Known(c, c.profile[j]) /\ Equipped(c, c.profile[j])

End(p, why) ==
  /\ pc' = [pc EXCEPT ![p] = "ended"]
  /\ fate' = [fate EXCEPT ![p] = why]

\* main, up to build_state: the configuration is read and validated.
Start(p) ==
  /\ pc[p] = "down"
  /\ Overlap \/ \A q \in Processes : pc[q] \notin Running
  /\ \E c \in Configs :
       /\ config' = [config EXCEPT ![p] = c]
       /\ \/ Valid(c) /\ pc' = [pc EXCEPT ![p] = "loading"] /\ UNCHANGED fate
          \/ ~ Valid(c) /\ End(p, "refused")
  /\ UNCHANGED <<files, next, cas, profiles>>

-----------------------------------------------------------------------------
(***************************************************************************)
(* load_or_bootstrap_ca, for one entry after the other.                    *)
(***************************************************************************)

At(p) == config[p].ca[next[p]]

Loading(p) == pc[p] = "loading" /\ next[p] <= Len(config[p].ca)

\* Mutated form of Have: the first entry of an id is kept.
HaveFirst(p, x) ==
  /\ cas' = [cas EXCEPT ![p][At(p).id] = IF @ = NoCa THEN x ELSE @]
  /\ next' = [next EXCEPT ![p] = @ + 1]
  /\ pc' = [pc EXCEPT ![p] = "loading"]
  /\ UNCHANGED <<config, profiles, fate>>

\* The CA goes into the map, where it replaces one of the same id.
Have(p, x) ==
  /\ cas' = [cas EXCEPT ![p][At(p).id] = x]
  /\ next' = [next EXCEPT ![p] = @ + 1]
  /\ pc' = [pc EXCEPT ![p] = "loading"]
  /\ UNCHANGED <<config, profiles, fate>>

GivesUp(p, why) == End(p, why) /\ UNCHANGED <<files, config, next, cas, profiles>>

Inline(p) == At(p).cert = "readable" /\ At(p).key = "readable"
Nothing(p) == At(p).cert = "nothing" /\ At(p).key = "nothing"

\* The material in the configuration comes before the file.
UseInline(p) ==
  /\ Loading(p)
  /\ Inline(p)
  /\ Have(p, [cert |-> Own, key |-> Own, file |-> NoFile])
  /\ UNCHANGED files

\* There is neither; or part of the material is named but not set, is not
\* given, or cannot be read, and then the file does not count.
NoMaterial(p) ==
  /\ Loading(p)
  /\ ~ Inline(p)
  /\ Nothing(p) => At(p).file = NoFile
  /\ GivesUp(p, "material")

Exists(f) == files[f] # Absent

LookForFile(p) ==
  /\ Loading(p)
  /\ Nothing(p)
  /\ At(p).file # NoFile
  /\ pc' = [pc EXCEPT ![p] = IF Exists(At(p).file) THEN "reading" ELSE "generating"]
  /\ UNCHANGED <<files, config, next, cas, profiles, fate>>

\* Mutated form of Complete: the key is not looked for.
CompleteCert(x) == x.cert # Missing

\* Both blocks are there.
Complete(x) == x.cert # Missing /\ x.key # Missing

ReadFile(p) ==
  /\ pc[p] = "reading"
  /\ Complete(files[At(p).file])
  /\ Have(p, [cert |-> files[At(p).file].cert, key |-> files[At(p).file].key,
              file |-> At(p).file])
  /\ UNCHANGED files

\* Mutated form of CannotRead: what cannot be read is generated.
CannotReadGenerates(p) ==
  /\ pc[p] = "reading"
  /\ pc' = [pc EXCEPT ![p] = "generating"]
  /\ UNCHANGED <<files, config, next, cas, profiles, fate>>

\* A block is missing, or the file cannot be read or decrypted.
CannotRead(p) == pc[p] = "reading" /\ GivesUp(p, "outside")

Pair(p) == <<p, next[p]>>

\* A pair is generated, and the file is created, or truncated if there is one
\* by now.
CreateFile(p) ==
  /\ pc[p] = "generating"
  /\ files' = [files EXCEPT ![At(p).file] = Whole(Missing)]
  /\ pc' = [pc EXCEPT ![p] = "writingCert"]
  /\ UNCHANGED <<config, next, cas, profiles, fate>>

WriteCert(p) ==
  /\ pc[p] = "writingCert"
  /\ files' = [files EXCEPT ![At(p).file].cert = Pair(p)]
  /\ pc' = [pc EXCEPT ![p] = "writingKey"]
  /\ UNCHANGED <<config, next, cas, profiles, fate>>

WriteKey(p) ==
  /\ pc[p] = "writingKey"
  /\ files' = [files EXCEPT ![At(p).file].key = Pair(p)]
  /\ Have(p, [cert |-> Pair(p), key |-> Pair(p), file |-> At(p).file])

\* Mutated form of CannotWrite: the CA that was generated is used all the same.
CannotWriteWarns(p) ==
  /\ pc[p] \in {"generating", "writingCert", "writingKey"}
  /\ Have(p, [cert |-> Pair(p), key |-> Pair(p), file |-> At(p).file])
  /\ UNCHANGED files

\* The pair cannot be generated or the file not be created or written; what
\* has been written stays.
CannotWrite(p) ==
  /\ pc[p] \in {"generating", "writingCert", "writingKey"}
  /\ GivesUp(p, "outside")

-----------------------------------------------------------------------------
(***************************************************************************)
(* The rest of build_state and of main.                                    *)
(***************************************************************************)

\* Every CA is there, and the secret of Intune is needed if it is configured.
Wire(p) ==
  /\ pc[p] = "loading"
  /\ next[p] > Len(config[p].ca)
  /\ \/ /\ config[p].intune # "unset"
        /\ pc' = [pc EXCEPT ![p] = "wiring"]
        /\ next' = [next EXCEPT ![p] = 1]
        /\ UNCHANGED <<files, config, cas, profiles, fate>>
     \/ config[p].intune = "unset" /\ GivesUp(p, "secret")

AtProfile(p) == config[p].profile[next[p]]

\* build_validator finds what the mode needs.
Ready(c, profile) ==
  Equipped(c, profile) /\ (profile.challenge = "static" => profile.secret = "set")

CannotBuild(p) ==
  /\ pc[p] = "wiring"
  /\ next[p] <= Len(config[p].profile)
  /\ ~ Ready(config[p], AtProfile(p))
  /\ GivesUp(p, "validator")

\* The profile goes into its map like a CA.
BuildProfile(p) ==
  /\ pc[p] = "wiring"
  /\ next[p] <= Len(config[p].profile)
  /\ Ready(config[p], AtProfile(p))
  /\ profiles' = [profiles EXCEPT ![p][AtProfile(p).name] =
                    [ca |-> AtProfile(p).ca, challenge |-> AtProfile(p).challenge]]
  /\ next' = [next EXCEPT ![p] = @ + 1]
  /\ UNCHANGED <<files, pc, config, cas, fate>>

Bind(p) ==
  /\ pc[p] = "wiring"
  /\ next[p] > Len(config[p].profile)
  /\ \/ pc' = [pc EXCEPT ![p] = "serving"] /\ UNCHANGED <<files, config, next, cas, profiles, fate>>
     \/ GivesUp(p, "outside")

\* The database cannot be reached, before any CA is looked at.
CannotConnect(p) ==
  /\ pc[p] = "loading"
  /\ next[p] = 1
  /\ GivesUp(p, "outside")

\* The process is told to stop, or is killed at any step.
Stop(p) ==
  /\ pc[p] \in Running
  /\ pc' = [pc EXCEPT ![p] = "ended"]
  /\ UNCHANGED <<files, config, next, cas, profiles, fate>>

LoadCa(p) ==
  \/ UseInline(p) \/ NoMaterial(p) \/ LookForFile(p)
  \/ ReadFile(p) \/ CannotRead(p)
  \/ CreateFile(p) \/ WriteCert(p) \/ WriteKey(p) \/ CannotWrite(p)

Next == \E p \in Processes :
  Start(p) \/ CannotConnect(p) \/ LoadCa(p) \/ Wire(p) \/ CannotBuild(p) \/ BuildProfile(p) \/ Bind(p) \/ Stop(p)

Spec == Init /\ [][Next]_vars

-----------------------------------------------------------------------------
(***************************************************************************)
(* Properties.                                                             *)
(***************************************************************************)

\* A value of the entry is not in the environment, or cannot be read.
Unreadable(e) == {e.cert, e.key} \cap {"unset", "garbage"} # {}

\* Of what the configuration alone decides, validate leaves one thing for
\* build_state to find: half of the inline material beside a key file, which
\* has_source accepts and inline_material refuses.  Otherwise build_state
\* gives up over a value that is not set or cannot be read; and every profile
\* that is served has its CA, so that the handlers find both (validate,
\* inline_material, build_validator, AppState::ca_for_profile).
AcceptedConfigsAreWired ==
  \A p \in Processes :
    /\ fate[p] = "material" => \E i \in DOMAIN config[p].ca :
         LET e == config[p].ca[i]
         IN  i = next[p] /\ (Unreadable(e) \/ (HalfInline(e) /\ e.file # NoFile))
    /\ fate[p] = "validator" => \E j \in DOMAIN config[p].profile :
         LET q == config[p].profile[j]
         IN  j = next[p] /\ q.challenge = "static" /\ q.secret = "unset"
    /\ pc[p] = "serving" => \A n \in Names :
         profiles[p][n] # NoProfile => cas[p][profiles[p][n].ca] # NoCa

\* Every entry of the configuration is served but for those that a later one
\* of the same id or name replaces, and that one decides alone: where the CA
\* comes from, although the key file of an earlier entry has been generated,
\* and which CA and challenge a profile has (build_state).
LastEntryIsServed ==
  \A p \in Processes : pc[p] = "serving" =>
    /\ \A i \in DOMAIN config[p].ca :
         LET e == config[p].ca[i]
         IN  (\A j \in DOMAIN config[p].ca : j > i => config[p].ca[j].id # e.id) =>
               /\ cas[p][e.id] # NoCa
               /\ cas[p][e.id].file = IF e.cert = "nothing" THEN e.file ELSE NoFile
    /\ \A i \in DOMAIN config[p].profile :
         LET q == config[p].profile[i]
         IN  (\A j \in DOMAIN config[p].profile : j > i => config[p].profile[j].name # q.name) =>
               profiles[p][q.name] = [ca |-> q.ca, challenge |-> q.challenge]

\* src/app.rs:95-96, "generate and persist a self-signed CA if a key file is
\* configured but missing": the key file of a CA that is served holds that
\* CA's certificate and key, so that they will be there after a restart.
ServedCaIsPersisted ==
  \A p \in Processes, i \in CaIds :
    (pc[p] = "serving" /\ cas[p][i] # NoCa /\ cas[p][i].file # NoFile) =>
      files[cas[p][i].file] = [cert |-> cas[p][i].cert, key |-> cas[p][i].key]

\* A key file stands for one CA: processes that ever got a CA from it, entries
\* and restarts and interrupted starts notwithstanding, got the same, and a
\* certificate with its own key (load_or_bootstrap_ca, write_ca_pem).
CaSurvivesRestarts ==
  \A p, q \in Processes, i, j \in CaIds :
    (/\ cas[p][i] # NoCa /\ cas[q][j] # NoCa
     /\ cas[p][i].file = cas[q][j].file /\ cas[p][i].file # NoFile) =>
      /\ cas[p][i].cert = cas[q][j].cert
      /\ cas[p][i].cert = cas[p][i].key
=============================================================================
