--------------------------- MODULE StartupProofs ---------------------------
(***************************************************************************)
(* Proofs about Startup, for any configurations and any number of starts.  *)
(***************************************************************************)
EXTENDS Startup, TLAPS

-----------------------------------------------------------------------------
(***************************************************************************)
(* The inductive invariant.                                                *)
(***************************************************************************)

AtFile == {"reading", "generating", "writingCert", "writingKey"}
Cas    == AtFile \cup {"loading"}
Wired  == {"wiring", "serving"}

\* What a process has read, and what it has of it in its maps.
ConfigInv(p) ==
  /\ next[p] # 0
  /\ pc[p] = "down" => next[p] = 1
  /\ pc[p] \in Running => config[p] \in Configs /\ Valid(config[p])
  /\ pc[p] \in AtFile => next[p] <= Len(config[p].ca) /\ At(p).file \in Files
  /\ pc[p] \in {"reading", "writingCert", "writingKey"} => files[At(p).file] # Absent

CasInv(p) ==
  /\ pc[p] \in Cas => \A i \in DOMAIN config[p].ca :
                        i < next[p] => cas[p][config[p].ca[i].id] # NoCa
  /\ pc[p] \in Wired => \A i \in DOMAIN config[p].ca : cas[p][config[p].ca[i].id] # NoCa

\* What validate has left for build_state to find, if it found something.
FateInv(p) ==
  /\ fate[p] = "material" => \E i \in DOMAIN config[p].ca :
       LET e == config[p].ca[i]
       IN  i = next[p] /\ (Unreadable(e) \/ (HalfInline(e) /\ e.file # NoFile))
  /\ fate[p] = "validator" => \E j \in DOMAIN config[p].profile :
       LET q == config[p].profile[j]
       IN  j = next[p] /\ q.challenge = "static" /\ q.secret = "unset"

ProfilesInv(p) ==
  /\ pc[p] \in Cas \cup {"down"} => \A n \in Names : profiles[p][n] = NoProfile
  /\ pc[p] \in Wired => \A n \in Names :
       profiles[p][n] # NoProfile => cas[p][profiles[p][n].ca] # NoCa
  /\ pc[p] # "ended" => fate[p] = "none"
  /\ FateInv(p)

WiringInv == \A p \in Processes : ConfigInv(p) /\ CasInv(p) /\ ProfilesInv(p)

IInv == TypeOK /\ WiringInv

\* What is in the files, if processes do not overlap.
Alone == \A p, q \in Processes : (pc[p] \in Running /\ pc[q] \in Running) => p = q

KeptInv == \A p \in Processes, i \in CaIds :
  (cas[p][i] # NoCa /\ cas[p][i].file # NoFile) =>
    files[cas[p][i].file] = Whole(cas[p][i].cert) /\ cas[p][i].key = cas[p][i].cert

WritingInv(p) ==
  /\ pc[p] = "generating" => files[At(p).file] = Absent
  /\ pc[p] = "writingCert" => files[At(p).file] = Whole(Missing)
  /\ pc[p] = "writingKey" => files[At(p).file] = [cert |-> Pair(p), key |-> Missing]

WholeInv == \A f \in Files :
  (files[f] # Absent /\ Complete(files[f])) => files[f].cert = files[f].key

FilesInv == Alone /\ KeptInv /\ WholeInv /\ \A p \in Processes : WritingInv(p)

LEMMA InvInit == Init => IInv
<1>1. SUFFICES ASSUME Init PROVE IInv
  OBVIOUS
<1>2. Whole(Own) \in Content
  BY DEF Whole, Content, Pairs
<1>3. TypeOK
  BY <1>1, <1>2 DEF Init, TypeOK, Phases, Fates
<1>4. ASSUME NEW p \in Processes PROVE ConfigInv(p) /\ CasInv(p) /\ ProfilesInv(p)
  <2>1. pc[p] = "down" /\ next[p] = 1 /\ fate[p] = "none" /\ \A n \in Names : profiles[p][n] = NoProfile
    BY <1>1 DEF Init
  <2> QED
    BY <2>1 DEF ConfigInv, CasInv, ProfilesInv, FateInv, Running, AtFile, Cas, Wired
<1> QED BY <1>3, <1>4 DEF IInv, WiringInv

-----------------------------------------------------------------------------
(***************************************************************************)
(* The entries a process is at, and the CAs it gets from them.             *)
(***************************************************************************)

\* The [[ca]] entry of a process that is loading is one of the configuration.
LEMMA EntryAt ==
  ASSUME IInv, NEW p \in Processes, Loading(p) \/ pc[p] \in AtFile
  PROVE  /\ config[p] \in Configs /\ Valid(config[p])
         /\ next[p] \in DOMAIN config[p].ca
         /\ At(p) \in Entry
<1>1. pc[p] \in Running /\ next[p] \in Nat /\ next[p] # 0
  BY DEF IInv, TypeOK, WiringInv, ConfigInv, Loading, AtFile, Running, Phases
<1>2. config[p] \in Configs /\ Valid(config[p])
  BY <1>1 DEF IInv, WiringInv, ConfigInv
<1>3. config[p] \in Config
  BY <1>2, ConfigsAssumption
<1>4. config[p].ca \in Seq(Entry)
  BY <1>3 DEF Config
<1>5. next[p] <= Len(config[p].ca)
  BY DEF IInv, WiringInv, ConfigInv, Loading
<1>6. next[p] \in 1..Len(config[p].ca)
  BY <1>1, <1>4, <1>5
<1> QED BY <1>2, <1>4, <1>6 DEF At

\* What a process takes for a CA is one.
LEMMA Taken ==
  ASSUME IInv, NEW p \in Processes
  PROVE  /\ Loading(p) => [cert |-> Own, key |-> Own, file |-> NoFile] \in Ca
         /\ (pc[p] = "reading" /\ Complete(files[At(p).file])) =>
              [cert |-> files[At(p).file].cert, key |-> files[At(p).file].key,
               file |-> At(p).file] \in Ca
         /\ (pc[p] \in AtFile) =>
              [cert |-> Pair(p), key |-> Pair(p), file |-> At(p).file] \in Ca
<1>1. [cert |-> Own, key |-> Own, file |-> NoFile] \in Ca
  BY DEF Ca, Pairs
<1>2. ASSUME pc[p] \in AtFile PROVE At(p).file \in Files /\ Pair(p) \in Pairs
  BY <1>2 DEF IInv, TypeOK, WiringInv, ConfigInv, Pair, Pairs
<1>3. ASSUME pc[p] \in AtFile PROVE [cert |-> Pair(p), key |-> Pair(p), file |-> At(p).file] \in Ca
  BY <1>2, <1>3 DEF Ca
<1>4. ASSUME pc[p] = "reading", Complete(files[At(p).file])
      PROVE  [cert |-> files[At(p).file].cert, key |-> files[At(p).file].key,
              file |-> At(p).file] \in Ca
  <2>1. At(p).file \in Files /\ files[At(p).file] # Absent
    BY <1>2, <1>4 DEF AtFile, IInv, WiringInv, ConfigInv
  <2>2. files[At(p).file] \in Content
    BY <2>1 DEF IInv, TypeOK
  <2> QED
    BY <1>4, <2>1, <2>2 DEF Complete, Content, Ca
<1> QED BY <1>1, <1>3, <1>4

-----------------------------------------------------------------------------
(***************************************************************************)
(* Steps, whether or not processes overlap.                                *)
(***************************************************************************)

\* The steps that bring a CA, or end the process, have their types.
LEMMA HaveType ==
  ASSUME TypeOK, NEW p \in Processes, NEW x \in Ca, At(p).id \in CaIds,
         Have(p, x), files' \in [Files -> Content \cup {Absent}]
  PROVE  TypeOK'
<1>1. cas' \in [Processes -> [CaIds -> Ca \cup {NoCa}]]
  BY DEF TypeOK, Have
<1>2. pc' \in [Processes -> Phases] /\ next' \in [Processes -> Nat]
  BY DEF TypeOK, Have, Phases
<1> QED
  BY <1>1, <1>2 DEF TypeOK, Have

LEMMA GivesUpType ==
  ASSUME TypeOK, NEW p \in Processes, NEW why \in Fates, GivesUp(p, why)
  PROVE  TypeOK'
  BY DEF TypeOK, GivesUp, End, Phases

\* What is written to a key file is a content.
LEMMA WriteType ==
  ASSUME IInv, NEW p \in Processes, CreateFile(p) \/ WriteCert(p) \/ WriteKey(p)
  PROVE  files' \in [Files -> Content \cup {Absent}]
<1>1. At(p).file \in Files /\ Pair(p) \in Pairs
  BY DEF IInv, TypeOK, WiringInv, ConfigInv, CreateFile, WriteCert, WriteKey, AtFile, Pair, Pairs
<1>2. CASE CreateFile(p)
  BY <1>1, <1>2 DEF CreateFile, IInv, TypeOK, Whole, Content
<1>3. CASE WriteCert(p) \/ WriteKey(p)
  <2>1. files[At(p).file] \in Content
    BY <1>1, <1>3 DEF IInv, TypeOK, WiringInv, ConfigInv, WriteCert, WriteKey
  <2>2. /\ [files[At(p).file] EXCEPT !.cert = Pair(p)] \in Content
        /\ [files[At(p).file] EXCEPT !.key = Pair(p)] \in Content
    BY <1>1, <2>1 DEF Content
  <2> QED
    BY <1>3, <2>2 DEF WriteCert, WriteKey, IInv, TypeOK
<1> QED BY <1>2, <1>3

LEMMA TypeStep == IInv /\ [Next]_vars => TypeOK'
<1> SUFFICES ASSUME IInv, [Next]_vars PROVE TypeOK'
  OBVIOUS
<1>0. TypeOK
  BY DEF IInv
<1>1. ASSUME NEW p \in Processes, Start(p) PROVE TypeOK'
  <2>1. PICK c \in Configs :
          /\ config' = [config EXCEPT ![p] = c]
          /\ \/ pc' = [pc EXCEPT ![p] = "loading"] /\ UNCHANGED fate
             \/ End(p, "refused")
    BY <1>1 DEF Start
  <2>2. config' \in [Processes -> Configs \cup {NoConfig}]
    BY <1>0, <2>1 DEF TypeOK
  <2> QED
    BY <1>0, <1>1, <2>1, <2>2 DEF TypeOK, Start, End, Phases, Fates
<1>2. ASSUME NEW p \in Processes, UseInline(p) \/ ReadFile(p) \/ WriteKey(p) PROVE TypeOK'
  <2>1. At(p).id \in CaIds
    BY <1>2, EntryAt DEF UseInline, ReadFile, WriteKey, AtFile, Entry
  <2>2. files' \in [Files -> Content \cup {Absent}]
    BY <1>0, <1>2, WriteType DEF UseInline, ReadFile, TypeOK
  <2>3. PICK x \in Ca : Have(p, x)
    BY <1>2, Taken DEF UseInline, ReadFile, WriteKey, AtFile
  <2> QED
    BY <1>0, <2>1, <2>2, <2>3, HaveType
<1>3. ASSUME NEW p \in Processes,
             NoMaterial(p) \/ CannotRead(p) \/ CannotWrite(p) \/ CannotBuild(p) \/ CannotConnect(p)
      PROVE  TypeOK'
  BY <1>0, <1>3, GivesUpType
     DEF NoMaterial, CannotRead, CannotWrite, CannotBuild, CannotConnect, Fates
<1>4. ASSUME NEW p \in Processes, CreateFile(p) \/ WriteCert(p) PROVE TypeOK'
  <2>1. files' \in [Files -> Content \cup {Absent}]
    BY <1>4, WriteType
  <2> QED
    BY <1>0, <1>4, <2>1 DEF CreateFile, WriteCert, TypeOK, Phases
<1>5. ASSUME NEW p \in Processes, LookForFile(p) \/ Stop(p) PROVE TypeOK'
  BY <1>0, <1>5 DEF TypeOK, LookForFile, Stop, Phases
<1>6. ASSUME NEW p \in Processes, Wire(p) PROVE TypeOK'
  <2>1. CASE GivesUp(p, "secret")
    BY <1>0, <2>1, GivesUpType DEF Fates
  <2>2. CASE ~ GivesUp(p, "secret")
    <3>1. /\ pc' = [pc EXCEPT ![p] = "wiring"] /\ next' = [next EXCEPT ![p] = 1]
          /\ UNCHANGED <<files, config, cas, profiles, fate>>
      BY <1>6, <2>2 DEF Wire
    <3> QED BY <1>0, <3>1 DEF TypeOK, Phases
  <2> QED BY <2>1, <2>2
<1>7. ASSUME NEW p \in Processes, BuildProfile(p) PROVE TypeOK'
  <2>1. config[p] \in Config
    BY <1>7, ConfigsAssumption DEF IInv, WiringInv, ConfigInv, BuildProfile, Running, Phases
  <2>2. config[p].profile \in Seq(Profile)
    BY <2>1 DEF Config
  <2>3. next[p] \in 1..Len(config[p].profile)
    BY <1>7, <2>2 DEF IInv, TypeOK, WiringInv, ConfigInv, BuildProfile
  <2>4. AtProfile(p) \in Profile
    BY <2>2, <2>3 DEF AtProfile
  <2>5. [ca |-> AtProfile(p).ca, challenge |-> AtProfile(p).challenge] \in Runtime
        /\ AtProfile(p).name \in Names
    BY <2>4 DEF Profile, Runtime
  <2> QED
    BY <1>0, <1>7, <2>5 DEF TypeOK, BuildProfile
<1>8. ASSUME NEW p \in Processes, Bind(p) PROVE TypeOK'
  BY <1>0, <1>8, GivesUpType DEF TypeOK, Bind, Phases, Fates
<1>9. CASE UNCHANGED vars
  BY <1>0, <1>9 DEF TypeOK, vars
<1> QED
  BY <1>1, <1>2, <1>3, <1>4, <1>5, <1>6, <1>7, <1>8, <1>9 DEF Next, LoadCa

\* A file that exists goes on existing.
LEMMA FilesStay ==
  ASSUME IInv, [Next]_vars, NEW f \in Files, files[f] # Absent
  PROVE  files'[f] # Absent
<1>1. ASSUME NEW p \in Processes, CreateFile(p) \/ WriteCert(p) \/ WriteKey(p) PROVE files'[f] # Absent
  <2>1. At(p).file \in Files /\ Pair(p) \in Pairs
    BY <1>1 DEF IInv, TypeOK, WiringInv, ConfigInv, CreateFile, WriteCert, WriteKey, AtFile, Pair, Pairs
  <2>2. files[f] \in Content
    BY DEF IInv, TypeOK
  <2>3. /\ Whole(Missing) \in Content
        /\ [files[f] EXCEPT !.cert = Pair(p)] \in Content
        /\ [files[f] EXCEPT !.key = Pair(p)] \in Content
    BY <2>1, <2>2 DEF Content, Whole
  <2>4. files'[f] \in {files[f], Whole(Missing), [files[f] EXCEPT !.cert = Pair(p)],
                       [files[f] EXCEPT !.key = Pair(p)]}
    <3>1. files \in [Files -> Content \cup {Absent}]
      BY DEF IInv, TypeOK
    <3>2. CASE CreateFile(p)
      BY <3>1, <3>2 DEF CreateFile
    <3>3. CASE WriteCert(p)
      BY <3>1, <3>3 DEF WriteCert
    <3>4. CASE WriteKey(p)
      BY <3>1, <3>4 DEF WriteKey
    <3> QED BY <1>1, <3>2, <3>3, <3>4
  <2> QED BY <2>2, <2>3, <2>4, AbsentAssumption
<1>2. CASE UNCHANGED files
  BY <1>2
<1>3. [\E p \in Processes : CreateFile(p) \/ WriteCert(p) \/ WriteKey(p)]_files
  BY DEF Next, vars, LoadCa, Start, CannotConnect, UseInline, NoMaterial, LookForFile, ReadFile,
         CannotRead, CannotWrite, Wire, CannotBuild, BuildProfile, Bind, Stop, GivesUp
<1> QED BY <1>1, <1>2, <1>3

\* A process that a step of another one leaves alone.
LEMMA Frame ==
  ASSUME IInv, [Next]_vars, NEW q \in Processes,
         pc'[q] = pc[q], config'[q] = config[q], next'[q] = next[q], cas'[q] = cas[q],
         profiles'[q] = profiles[q], fate'[q] = fate[q]
  PROVE  ConfigInv(q)' /\ CasInv(q)' /\ ProfilesInv(q)'
<1>1. ConfigInv(q) /\ CasInv(q) /\ ProfilesInv(q)
  BY DEF IInv, WiringInv
<1>2. At(q)' = At(q)
  BY DEF At
<1>3. ConfigInv(q)'
  <2>1. pc[q] \in {"reading", "writingCert", "writingKey"} => files'[At(q).file] # Absent
    BY <1>1, FilesStay DEF ConfigInv, AtFile
  <2> QED BY <1>1, <1>2, <2>1 DEF ConfigInv
<1>4. CasInv(q)'
  BY <1>1 DEF CasInv
<1>5. ProfilesInv(q)'
  BY <1>1 DEF ProfilesInv, FateInv
<1> QED BY <1>3, <1>4, <1>5

\* What a process does.
Step(p) ==
  \/ Start(p) \/ CannotConnect(p) \/ LoadCa(p)
  \/ Wire(p) \/ CannotBuild(p) \/ BuildProfile(p) \/ Bind(p) \/ Stop(p)

\* A step writes only what belongs to its process.
LEMMA Others ==
  ASSUME TypeOK, NEW p \in Processes, NEW q \in Processes \ {p},
         Step(p)
  PROVE  /\ pc'[q] = pc[q] /\ config'[q] = config[q] /\ next'[q] = next[q] /\ cas'[q] = cas[q]
         /\ profiles'[q] = profiles[q] /\ fate'[q] = fate[q]
<1>1. CASE LoadCa(p)
  BY <1>1 DEF TypeOK, LoadCa, UseInline, NoMaterial, LookForFile, ReadFile, CannotRead, CreateFile,
              WriteCert, WriteKey, CannotWrite, Have, GivesUp, End
<1>2. CASE Start(p) \/ Stop(p) \/ Bind(p)
  BY <1>2 DEF TypeOK, Start, Stop, Bind, GivesUp, End
<1>3. CASE CannotConnect(p) \/ Wire(p) \/ CannotBuild(p) \/ BuildProfile(p)
  BY <1>3 DEF TypeOK, CannotConnect, Wire, CannotBuild, BuildProfile, GivesUp, End
<1> QED BY <1>1, <1>2, <1>3 DEF Step

\* The process comes to an end.
LEMMA EndInv ==
  ASSUME IInv, NEW p \in Processes, pc'[p] = "ended", next'[p] # 0, FateInv(p)'
  PROVE  ConfigInv(p)' /\ CasInv(p)' /\ ProfilesInv(p)'
  BY DEF ConfigInv, CasInv, ProfilesInv, Running, AtFile, Cas, Wired

\* The process gets a CA.
LEMMA HaveInv ==
  ASSUME IInv, NEW p \in Processes, NEW x \in Ca, Have(p, x), Loading(p) \/ pc[p] \in AtFile
  PROVE  ConfigInv(p)' /\ CasInv(p)' /\ ProfilesInv(p)'
<1>1. /\ config[p] \in Configs /\ Valid(config[p]) /\ At(p) \in Entry
      /\ next[p] \in DOMAIN config[p].ca /\ next[p] \in Nat
  BY EntryAt DEF IInv, TypeOK
<1>2. config[p].ca \in Seq(Entry)
  BY <1>1, ConfigsAssumption DEF Config
<1>3. /\ pc'[p] = "loading" /\ next'[p] = next[p] + 1 /\ config'[p] = config[p]
      /\ profiles'[p] = profiles[p] /\ fate'[p] = fate[p]
      /\ cas'[p] = [cas[p] EXCEPT ![At(p).id] = x] /\ cas[p] \in [CaIds -> Ca \cup {NoCa}]
  BY DEF Have, IInv, TypeOK
<1>4. x # NoCa
  BY NoCaAssumption
<1>5. ConfigInv(p)'
  BY <1>1, <1>3 DEF ConfigInv, AtFile, Running, Phases
<1>6. CasInv(p)'
  <2>1. ASSUME NEW i \in DOMAIN config[p].ca, i < next[p] + 1
        PROVE  cas'[p][config[p].ca[i].id] # NoCa
    <3>1. config[p].ca[i].id \in CaIds /\ i \in Nat
      <4>1. config[p].ca[i] \in Entry /\ i \in Nat
        BY <1>2, <2>1
      <4> QED BY <4>1 DEF Entry
    <3>2. CASE i = next[p]
      BY <1>3, <1>4, <3>1, <3>2 DEF At
    <3>3. CASE i # next[p]
      <4>1. i < next[p]
        BY <1>1, <2>1, <3>1, <3>3
      <4>2. cas[p][config[p].ca[i].id] # NoCa
        BY <4>1 DEF IInv, WiringInv, CasInv, Loading, Cas
      <4> QED BY <1>3, <1>4, <3>1, <4>2
    <3> QED BY <3>2, <3>3
  <2> QED BY <1>3, <2>1 DEF CasInv, Cas, AtFile, Wired
<1>7. ProfilesInv(p)'
  BY <1>3 DEF ProfilesInv, FateInv, IInv, WiringInv, Loading, Cas, AtFile, Wired
<1> QED BY <1>5, <1>6, <1>7

\* The process goes from one of the steps of loading to another.
LEMMA LoadInv ==
  ASSUME IInv, NEW p \in Processes, Loading(p) \/ pc[p] \in AtFile, pc'[p] \in AtFile,
         config'[p] = config[p], next'[p] = next[p], cas'[p] = cas[p],
         profiles'[p] = profiles[p], fate'[p] = fate[p], At(p).file \in Files,
         pc'[p] \in {"reading", "writingCert", "writingKey"} => files'[At(p).file] # Absent
  PROVE  ConfigInv(p)' /\ CasInv(p)' /\ ProfilesInv(p)'
<1>1. config[p] \in Configs /\ Valid(config[p]) /\ next[p] \in DOMAIN config[p].ca
  BY EntryAt
<1>2. config[p].ca \in Seq(Entry)
  BY <1>1, ConfigsAssumption DEF Config
<1>3. next[p] <= Len(config[p].ca) /\ next[p] # 0
  BY <1>1, <1>2
<1>4. At(p)' = At(p)
  BY DEF At
<1>5. ConfigInv(p)'
  BY <1>1, <1>3, <1>4 DEF ConfigInv, AtFile
<1>6. CasInv(p)'
  BY DEF CasInv, IInv, WiringInv, Cas, Loading, Wired, AtFile
<1>7. ProfilesInv(p)'
  BY DEF ProfilesInv, FateInv, IInv, WiringInv, Cas, Loading, Wired, AtFile
<1> QED BY <1>5, <1>6, <1>7

\* What validate has checked, for a CA entry and for a profile.
LEMMA ValidEntry ==
  ASSUME IInv, NEW p \in Processes, NoMaterial(p)
  PROVE  /\ next[p] \in DOMAIN config[p].ca
         /\ Unreadable(At(p)) \/ (HalfInline(At(p)) /\ At(p).file # NoFile)
<1>1. /\ HasSource(At(p)) /\ At(p) \in Entry /\ next[p] \in DOMAIN config[p].ca
      /\ ~ Inline(p) /\ (Nothing(p) => At(p).file = NoFile)
  BY EntryAt DEF Valid, At, NoMaterial
<1>2. At(p).cert \in Given /\ At(p).key \in Given
  BY <1>1 DEF Entry
<1> QED BY <1>1, <1>2 DEF HasSource, Nothing, Inline, HalfInline, Unreadable, Given

LEMMA ValidProfile ==
  ASSUME IInv, NEW p \in Processes, pc[p] = "wiring", next[p] <= Len(config[p].profile)
  PROVE  /\ Equipped(config[p], AtProfile(p))
         /\ next[p] \in DOMAIN config[p].profile /\ AtProfile(p) \in Profile
         /\ cas[p][AtProfile(p).ca] # NoCa
<1>1. /\ config[p] \in Configs /\ Valid(config[p]) /\ next[p] \in Nat /\ next[p] # 0
      /\ \A i \in DOMAIN config[p].ca : cas[p][config[p].ca[i].id] # NoCa
  BY DEF IInv, TypeOK, WiringInv, ConfigInv, CasInv, Running, Phases, Wired
<1>2. config[p].profile \in Seq(Profile)
  BY <1>1, ConfigsAssumption DEF Config
<1>3. next[p] \in DOMAIN config[p].profile
  BY <1>1, <1>2
<1>4. Known(config[p], AtProfile(p)) /\ Equipped(config[p], AtProfile(p))
  BY <1>1, <1>3 DEF Valid, AtProfile
<1> QED BY <1>1, <1>2, <1>3, <1>4 DEF Known, AtProfile

LEMMA OwnInv ==
  ASSUME IInv, [Next]_vars, NEW p \in Processes,
         Step(p)
  PROVE  ConfigInv(p)' /\ CasInv(p)' /\ ProfilesInv(p)'
<1>0. /\ TypeOK /\ ConfigInv(p) /\ CasInv(p) /\ ProfilesInv(p)
      /\ pc[p] \in Phases /\ next[p] \in Nat
  BY DEF IInv, TypeOK, WiringInv
<1>1. CASE Start(p)
  <2>1. PICK c \in Configs :
          /\ config'[p] = c /\ next'[p] = 1 /\ profiles'[p] = profiles[p]
          /\ pc[p] = "down" /\ next[p] = 1
          /\ \/ Valid(c) /\ pc'[p] = "loading" /\ fate'[p] = fate[p] /\ fate[p] = "none"
             \/ pc'[p] = "ended" /\ fate'[p] = "refused"
    BY <1>0, <1>1 DEF Start, End, TypeOK, ConfigInv, ProfilesInv
  <2>2. CASE pc'[p] = "ended"
    BY <2>1, <2>2, EndInv DEF FateInv
  <2>3. CASE pc'[p] = "loading"
    <3>1. ConfigInv(p)'
      BY <2>1, <2>3 DEF ConfigInv, AtFile, Running, Phases
    <3>2. CasInv(p)'
      <4>1. ASSUME NEW i \in DOMAIN config'[p].ca PROVE ~ (i < 1)
        <5>1. config'[p].ca \in Seq(Entry)
          BY <2>1, ConfigsAssumption DEF Config
        <5> QED BY <5>1
      <4> QED BY <2>1, <2>3, <4>1 DEF CasInv, Wired
    <3>3. ProfilesInv(p)'
      BY <1>0, <2>1, <2>3 DEF ProfilesInv, FateInv, Wired
    <3> QED BY <3>1, <3>2, <3>3
  <2> QED BY <2>1, <2>2, <2>3
<1>2. CASE UseInline(p) \/ ReadFile(p) \/ WriteKey(p)
  <2>1. Loading(p) \/ pc[p] \in AtFile
    BY <1>2 DEF UseInline, ReadFile, WriteKey, AtFile
  <2>2. PICK x \in Ca : Have(p, x)
    BY <1>2, Taken DEF UseInline, ReadFile, WriteKey, AtFile
  <2> QED BY <2>1, <2>2, HaveInv
<1>3. CASE \E why \in {"secret", "outside"} : GivesUp(p, why)
  <2>1. pc'[p] = "ended" /\ next'[p] # 0 /\ fate'[p] \in {"secret", "outside"}
    BY <1>0, <1>3 DEF GivesUp, End, TypeOK, ConfigInv
  <2> QED BY <2>1, EndInv DEF FateInv
<1>4. CASE NoMaterial(p)
  <2>1. /\ pc'[p] = "ended" /\ next'[p] = next[p] /\ next[p] # 0 /\ config'[p] = config[p]
        /\ fate'[p] = "material"
    BY <1>0, <1>4 DEF NoMaterial, GivesUp, End, TypeOK, ConfigInv
  <2>2. FateInv(p)'
    BY <1>4, <2>1, ValidEntry DEF FateInv, At
  <2> QED BY <2>1, <2>2, EndInv
<1>5. CASE CannotBuild(p)
  <2>1. /\ pc'[p] = "ended" /\ next'[p] = next[p] /\ next[p] # 0 /\ config'[p] = config[p]
        /\ fate'[p] = "validator"
    BY <1>0, <1>5 DEF CannotBuild, GivesUp, End, TypeOK, ConfigInv
  <2>2. /\ next[p] \in DOMAIN config[p].profile /\ AtProfile(p) \in Profile
        /\ AtProfile(p).challenge = "static" /\ AtProfile(p).secret = "unset"
    BY <1>5, ValidProfile DEF CannotBuild, Ready, Equipped, Profile, Secret
  <2>3. FateInv(p)'
    BY <2>1, <2>2 DEF FateInv, AtProfile
  <2> QED BY <2>1, <2>3, EndInv
<1>6. CASE CannotRead(p) \/ CannotWrite(p) \/ CannotConnect(p)
  BY <1>3, <1>6 DEF CannotRead, CannotWrite, CannotConnect
<1>7. CASE LookForFile(p)
  <2>1. At(p).file \in Files
    BY <1>7, EntryAt DEF LookForFile, Entry
  <2>2. /\ pc'[p] = IF Exists(At(p).file) THEN "reading" ELSE "generating"
        /\ config'[p] = config[p] /\ next'[p] = next[p] /\ cas'[p] = cas[p]
        /\ profiles'[p] = profiles[p] /\ fate'[p] = fate[p] /\ files' = files
    BY <1>0, <1>7 DEF LookForFile, TypeOK
  <2> QED BY <1>7, <2>1, <2>2, LoadInv DEF LookForFile, Exists, AtFile
<1>8. CASE CreateFile(p) \/ WriteCert(p)
  <2>1. /\ pc'[p] \in {"writingCert", "writingKey"}
        /\ config'[p] = config[p] /\ next'[p] = next[p] /\ cas'[p] = cas[p]
        /\ profiles'[p] = profiles[p] /\ fate'[p] = fate[p]
    BY <1>0, <1>8 DEF CreateFile, WriteCert, TypeOK
  <2>2. pc[p] \in AtFile /\ At(p).file \in Files
    BY <1>0, <1>8 DEF CreateFile, WriteCert, AtFile, ConfigInv
  <2>3. files'[At(p).file] # Absent
    <3>1. CASE CreateFile(p)
      <4>1. files'[At(p).file] = Whole(Missing)
        BY <1>0, <2>2, <3>1 DEF CreateFile, TypeOK
      <4> QED BY <4>1, AbsentAssumption DEF Whole, Content
    <3>2. CASE WriteCert(p)
      BY <1>0, <2>2, <3>2, FilesStay DEF WriteCert, ConfigInv
    <3> QED BY <1>8, <3>1, <3>2
  <2> QED BY <2>1, <2>2, <2>3, LoadInv DEF AtFile
<1>9. CASE Wire(p)
  <2>1. CASE ~ GivesUp(p, "secret")
    <3>1. /\ pc[p] = "loading" /\ next[p] > Len(config[p].ca)
          /\ pc'[p] = "wiring" /\ next'[p] = 1 /\ config'[p] = config[p] /\ cas'[p] = cas[p]
          /\ profiles'[p] = profiles[p] /\ fate'[p] = fate[p]
      BY <1>0, <1>9, <2>1 DEF Wire, TypeOK
    <3>2. config[p] \in Configs /\ Valid(config[p])
      BY <1>0, <3>1 DEF ConfigInv, Running, Phases
    <3>3. ConfigInv(p)'
      BY <3>1, <3>2 DEF ConfigInv, AtFile
    <3>4. \A i \in DOMAIN config[p].ca : cas[p][config[p].ca[i].id] # NoCa
      <4>1. config[p].ca \in Seq(Entry)
        BY <3>2, ConfigsAssumption DEF Config
      <4>2. \A i \in DOMAIN config[p].ca : i < next[p]
        BY <1>0, <3>1, <4>1
      <4> QED BY <1>0, <3>1, <4>2 DEF CasInv, Cas
    <3>5. CasInv(p)'
      BY <3>1, <3>4 DEF CasInv, Cas, AtFile
    <3>6. ProfilesInv(p)'
      BY <1>0, <3>1 DEF ProfilesInv, FateInv, Cas
    <3> QED BY <3>3, <3>5, <3>6
  <2> QED BY <1>3, <2>1
<1>10. CASE BuildProfile(p)
  <2>1. /\ pc[p] = "wiring" /\ pc'[p] = pc[p] /\ next'[p] = next[p] + 1
        /\ config'[p] = config[p] /\ cas'[p] = cas[p] /\ fate'[p] = fate[p]
        /\ profiles'[p] = [profiles[p] EXCEPT ![AtProfile(p).name] =
                             [ca |-> AtProfile(p).ca, challenge |-> AtProfile(p).challenge]]
        /\ profiles[p] \in [Names -> Runtime \cup {NoProfile}]
    BY <1>0, <1>10 DEF BuildProfile, TypeOK
  <2>2. cas[p][AtProfile(p).ca] # NoCa
    BY <1>10, ValidProfile DEF BuildProfile
  <2>3. ConfigInv(p)'
    BY <1>0, <2>1 DEF ConfigInv, AtFile
  <2>4. CasInv(p)'
    BY <1>0, <2>1 DEF CasInv, Cas, AtFile
  <2>5. ProfilesInv(p)'
    BY <1>0, <2>1, <2>2 DEF ProfilesInv, FateInv, Cas, AtFile, Wired
  <2> QED BY <2>3, <2>4, <2>5
<1>11. CASE Bind(p)
  <2>1. CASE ~ GivesUp(p, "outside")
    <3>1. /\ pc[p] = "wiring" /\ pc'[p] = "serving" /\ next'[p] = next[p]
          /\ config'[p] = config[p] /\ cas'[p] = cas[p] /\ profiles'[p] = profiles[p]
          /\ fate'[p] = fate[p]
      BY <1>0, <1>11, <2>1 DEF Bind, TypeOK
    <3> QED
      BY <1>0, <3>1 DEF ConfigInv, CasInv, ProfilesInv, FateInv, Running, Phases, AtFile, Cas, Wired
  <2> QED BY <1>3, <2>1
<1>12. CASE Stop(p)
  <2>1. /\ pc'[p] = "ended" /\ next'[p] = next[p] /\ next[p] # 0 /\ config'[p] = config[p]
        /\ fate'[p] = fate[p] /\ FateInv(p)
    BY <1>0, <1>12 DEF Stop, TypeOK, ConfigInv, ProfilesInv
  <2>2. FateInv(p)'
    BY <2>1 DEF FateInv
  <2> QED BY <2>1, <2>2, EndInv
<1> QED
  BY <1>1, <1>2, <1>4, <1>5, <1>6, <1>7, <1>8, <1>9, <1>10, <1>11, <1>12 DEF LoadCa, Step

LEMMA WiringStep == IInv /\ [Next]_vars => WiringInv'
<1> SUFFICES ASSUME IInv, [Next]_vars, NEW q \in Processes
             PROVE  (ConfigInv(q) /\ CasInv(q) /\ ProfilesInv(q))'
  BY DEF WiringInv
<1>1. ASSUME NEW p \in Processes,
             Step(p)
      PROVE  (ConfigInv(q) /\ CasInv(q) /\ ProfilesInv(q))'
  BY <1>1, OwnInv, Others, Frame DEF IInv
<1>2. CASE UNCHANGED vars
  BY <1>2, Frame DEF vars
<1> QED BY <1>1, <1>2 DEF Next, Step

\* The inductive invariant, whether or not processes overlap (main,
\* build_state).
THEOREM InvariantHolds == Spec => []IInv
<1>1. IInv /\ [Next]_vars => IInv'
  BY TypeStep, WiringStep DEF IInv
<1> QED BY <1>1, InvInit, PTL DEF Spec

\* Every variable has its type (main, build_state).
THEOREM TypesCorrect == Spec => []TypeOK
<1>1. IInv => TypeOK
  BY DEF IInv
<1> QED BY <1>1, InvariantHolds, PTL

\* Of what a configuration that validate accepts decides alone, only half of
\* the inline material beside a key file makes build_state give up, and a
\* profile that is served has its CA (validate, inline_material, build_state).
THEOREM Wiring == Spec => []AcceptedConfigsAreWired
<1>1. IInv => AcceptedConfigsAreWired
  BY DEF IInv, WiringInv, ProfilesInv, FateInv, AcceptedConfigsAreWired, Wired
<1> QED BY <1>1, InvariantHolds, PTL

-----------------------------------------------------------------------------
(***************************************************************************)
(* The key files, if processes do not overlap.                             *)
(***************************************************************************)

LEMMA FilesInit == Init => FilesInv
<1> SUFFICES ASSUME Init PROVE FilesInv
  OBVIOUS
<1>1. Alone
  BY DEF Init, Alone, Running
<1>2. KeptInv
  BY DEF Init, KeptInv
<1>3. WholeInv
  BY DEF Init, WholeInv, Whole, Complete
<1>4. \A p \in Processes : WritingInv(p)
  BY DEF Init, WritingInv
<1> QED BY <1>1, <1>2, <1>3, <1>4 DEF FilesInv

LEMMA AloneStep ==
  ASSUME IInv, Alone, ~ Overlap, NEW p \in Processes, Step(p)
  PROVE  /\ Alone'
         /\ pc'[p] \in Running => \A q \in Processes \ {p} : pc[q] \notin Running /\ pc'[q] \notin Running
<1>1. \A q \in Processes \ {p} : pc'[q] = pc[q]
  BY Others DEF IInv
<1>2. pc'[p] \in Running => pc[p] \in Running \/ \A q \in Processes : pc[q] \notin Running
  <2>1. CASE Start(p)
    BY <2>1 DEF Start
  <2>2. CASE CannotConnect(p) \/ Wire(p) \/ CannotBuild(p) \/ BuildProfile(p) \/ Bind(p) \/ Stop(p)
    BY <2>2 DEF CannotConnect, Wire, CannotBuild, BuildProfile, Bind, Stop, Running, Phases
  <2>3. CASE LoadCa(p)
    BY <2>3 DEF LoadCa, UseInline, NoMaterial, LookForFile, ReadFile, CannotRead, CreateFile, WriteCert,
                WriteKey, CannotWrite, Loading, Running, Phases
  <2> QED BY <2>1, <2>2, <2>3 DEF Step
<1>3. pc'[p] \in Running => \A q \in Processes \ {p} : pc[q] \notin Running
  BY <1>2 DEF Alone
<1> QED BY <1>1, <1>3 DEF Alone

\* A CA that is held is whole in its file: no CA is held from a file that is
\* not there or not complete.
LEMMA NotKept ==
  ASSUME TypeOK, KeptInv, NEW f \in Files, files[f] = Absent \/ ~ Complete(files[f]),
         NEW q \in Processes, NEW i \in CaIds, cas[q][i] # NoCa
  PROVE  cas[q][i].file # f
<1> SUFFICES ASSUME cas[q][i].file = f PROVE FALSE
  OBVIOUS
<1>1. cas[q][i] \in Ca
  BY DEF TypeOK
<1>2. cas[q][i].cert \in Pairs
  BY <1>1 DEF Ca
<1>3. files[f] = Whole(cas[q][i].cert)
  BY NoFileAssumption DEF KeptInv
<1>4. files[f] \in Content /\ Complete(files[f])
  BY <1>2, <1>3, MissingAssumption DEF Whole, Content, Complete
<1> QED BY <1>4, AbsentAssumption

\* A step that neither writes a file nor brings a CA.
LEMMA QuietStep ==
  ASSUME FilesInv, Alone', UNCHANGED <<files, cas>>,
         \A q \in Processes : pc'[q] \in {"writingCert", "writingKey"} =>
           pc'[q] = pc[q] /\ next'[q] = next[q] /\ At(q)' = At(q),
         \A q \in Processes : pc'[q] = "generating" => files[At(q)'.file] = Absent
  PROVE  FilesInv'
<1>1. KeptInv' /\ WholeInv'
  BY DEF FilesInv, KeptInv, WholeInv
<1>2. ASSUME NEW q \in Processes PROVE WritingInv(q)'
  <2>1. CASE pc'[q] = "generating"
    BY <2>1 DEF WritingInv
  <2>2. CASE pc'[q] = "writingCert"
    BY <2>2 DEF WritingInv, FilesInv
  <2>3. CASE pc'[q] = "writingKey"
    BY <2>3 DEF WritingInv, FilesInv, Pair
  <2> QED BY <2>1, <2>2, <2>3 DEF WritingInv
<1> QED BY <1>1, <1>2 DEF FilesInv

\* A step that brings a CA whose file, if it has one, holds it.
LEMMA HaveStep ==
  ASSUME IInv, FilesInv, NEW p \in Processes, NEW x \in Ca, Have(p, x), At(p).id \in CaIds,
         Alone', pc'[p] \in Running => \A q \in Processes \ {p} : pc'[q] \notin Running,
         \A f \in Files : files'[f] # files[f] => files[f] # Absent /\ ~ Complete(files[f]),
         \A f \in Files : (files'[f] # Absent /\ Complete(files'[f])) =>
                            files'[f].cert = files'[f].key,
         x.file # NoFile => files'[x.file] = Whole(x.cert) /\ x.key = x.cert
  PROVE  FilesInv'
<1>1. /\ cas \in [Processes -> [CaIds -> Ca \cup {NoCa}]] /\ pc \in [Processes -> Phases]
      /\ cas' = [cas EXCEPT ![p][At(p).id] = x] /\ pc' = [pc EXCEPT ![p] = "loading"]
  BY DEF IInv, TypeOK, Have
<1>2. KeptInv'
  <2>1. SUFFICES ASSUME NEW q \in Processes, NEW i \in CaIds,
                        cas'[q][i] # NoCa, cas'[q][i].file # NoFile
                 PROVE  /\ files'[cas'[q][i].file] = Whole(cas'[q][i].cert)
                        /\ cas'[q][i].key = cas'[q][i].cert
    BY DEF KeptInv
  <2>2. CASE cas'[q][i] = x
    BY <2>1, <2>2
  <2>3. CASE cas'[q][i] = cas[q][i]
    <3>1. cas[q][i].file \in Files
      BY <1>1, <2>1, <2>3 DEF Ca
    <3>2. files'[cas[q][i].file] = files[cas[q][i].file]
      BY <2>1, <2>3, <3>1, NotKept DEF IInv, FilesInv
    <3> QED BY <2>1, <2>3, <3>2 DEF FilesInv, KeptInv
  <2> QED BY <1>1, <2>2, <2>3
<1>3. WholeInv'
  BY DEF WholeInv
<1>4. ASSUME NEW q \in Processes PROVE WritingInv(q)'
  BY <1>1 DEF WritingInv, Running, Phases
<1> QED BY <1>2, <1>3, <1>4 DEF FilesInv

\* A step that creates or continues a file from which no CA is held.
LEMMA WriteStep ==
  ASSUME IInv, FilesInv, NEW p \in Processes, CreateFile(p) \/ WriteCert(p),
         Alone', \A q \in Processes \ {p} : pc'[q] \notin Running
  PROVE  FilesInv'
<1> DEFINE f == At(p).file
<1>1. f \in Files /\ files \in [Files -> Content \cup {Absent}] /\ pc \in [Processes -> Phases]
      /\ Pair(p) \in Pairs
  BY DEF IInv, TypeOK, WiringInv, ConfigInv, CreateFile, WriteCert, AtFile, Pair, Pairs
<1>2. files[f] = Absent \/ files[f] = Whole(Missing)
  BY DEF FilesInv, WritingInv, CreateFile, WriteCert
<1>3. files[f] = Absent \/ ~ Complete(files[f])
  BY <1>2 DEF Whole, Complete
<1>4. /\ cas' = cas /\ At(p)' = At(p) /\ Pair(p)' = Pair(p)
      /\ \A g \in Files \ {f} : files'[g] = files[g]
  BY <1>1 DEF CreateFile, WriteCert, At, Pair
<1>5. /\ CreateFile(p) => pc'[p] = "writingCert" /\ files'[f] = Whole(Missing)
      /\ WriteCert(p) => pc'[p] = "writingKey" /\ files'[f] = [cert |-> Pair(p), key |-> Missing]
  <2>1. CASE CreateFile(p)
    BY <1>1, <2>1 DEF CreateFile, WriteCert
  <2>2. CASE WriteCert(p)
    <3>1. files[f] = Whole(Missing)
      BY <2>2 DEF WriteCert, FilesInv, WritingInv
    <3>2. files'[f] = [files[f] EXCEPT !.cert = Pair(p)]
      BY <1>1, <2>2 DEF WriteCert
    <3> QED BY <1>1, <2>2, <3>1, <3>2 DEF WriteCert, CreateFile, Whole
  <2> QED BY <2>1, <2>2
<1>6. ~ Complete(files'[f])
  BY <1>5 DEF Complete, Whole
<1>7. KeptInv'
  <2>1. SUFFICES ASSUME NEW q \in Processes, NEW i \in CaIds, cas[q][i] # NoCa, cas[q][i].file # NoFile
                 PROVE  /\ files'[cas[q][i].file] = Whole(cas[q][i].cert)
                        /\ cas[q][i].key = cas[q][i].cert
    BY <1>4 DEF KeptInv
  <2>2. cas[q][i].file \in Files
    BY <2>1 DEF IInv, TypeOK, Ca
  <2>3. cas[q][i].file # f
    BY <1>1, <1>3, <2>1, NotKept DEF IInv, FilesInv
  <2> QED BY <1>4, <2>1, <2>2, <2>3 DEF FilesInv, KeptInv
<1>8. WholeInv'
  BY <1>4, <1>6 DEF FilesInv, WholeInv
<1>9. ASSUME NEW q \in Processes PROVE WritingInv(q)'
  <2>1. CASE q = p
    BY <1>4, <1>5, <2>1 DEF WritingInv
  <2>2. CASE q # p
    BY <2>2 DEF WritingInv, Running, Phases
  <2> QED BY <2>1, <2>2
<1> QED BY <1>7, <1>8, <1>9 DEF FilesInv

LEMMA FilesStep == IInv /\ FilesInv /\ ~ Overlap /\ [Next]_vars => FilesInv'
<1> SUFFICES ASSUME IInv, FilesInv, ~ Overlap, [Next]_vars PROVE FilesInv'
  OBVIOUS
<1>1. CASE UNCHANGED vars
  BY <1>1, QuietStep DEF vars, FilesInv, Alone, At, WritingInv
<1>2. ASSUME NEW p \in Processes, Step(p) PROVE FilesInv'
  <2>0. /\ Alone'
        /\ pc'[p] \in Running => \A q \in Processes \ {p} : pc'[q] \notin Running
        /\ pc \in [Processes -> Phases]
    BY <1>2, AloneStep DEF FilesInv, IInv, TypeOK
  <2>1. \A q \in Processes \ {p} :
          pc'[q] = pc[q] /\ next'[q] = next[q] /\ At(q)' = At(q)
    BY <1>2, Others DEF IInv, At
  <2>2. ASSUME UNCHANGED <<files, cas>>,
               pc'[p] \notin {"generating", "writingCert", "writingKey"}
        PROVE  FilesInv'
    BY <2>0, <2>1, <2>2, QuietStep DEF FilesInv, WritingInv
  <2>3. CASE Start(p) \/ CannotConnect(p) \/ Wire(p) \/ CannotBuild(p) \/ BuildProfile(p)
               \/ Bind(p) \/ Stop(p)
    <3>1. UNCHANGED <<files, cas>> /\ pc'[p] \notin {"generating", "writingCert", "writingKey"}
      BY <2>0, <2>3 DEF Start, CannotConnect, Wire, CannotBuild, BuildProfile, Bind, Stop, GivesUp, End
    <3> QED BY <2>2, <3>1
  <2>4. CASE NoMaterial(p) \/ CannotRead(p) \/ CannotWrite(p)
    <3>1. UNCHANGED <<files, cas>> /\ pc'[p] \notin {"generating", "writingCert", "writingKey"}
      BY <2>0, <2>4 DEF NoMaterial, CannotRead, CannotWrite, GivesUp, End
    <3> QED BY <2>2, <3>1
  <2>5. CASE LookForFile(p)
    <3>1. /\ UNCHANGED <<files, cas>> /\ At(p)' = At(p)
          /\ pc'[p] = IF files[At(p).file] # Absent THEN "reading" ELSE "generating"
      BY <2>0, <2>5 DEF LookForFile, Exists, At
    <3>2. \A q \in Processes : pc'[q] \in {"writingCert", "writingKey"} =>
            pc'[q] = pc[q] /\ next'[q] = next[q] /\ At(q)' = At(q)
      BY <2>1, <3>1
    <3>3. \A q \in Processes : pc'[q] = "generating" => files[At(q)'.file] = Absent
      <4>1. pc'[p] = "generating" => files[At(p)'.file] = Absent
        BY <3>1
      <4>2. ASSUME NEW q \in Processes \ {p}, pc'[q] = "generating"
            PROVE  files[At(q)'.file] = Absent
        BY <2>1, <4>2 DEF FilesInv, WritingInv
      <4> QED BY <4>1, <4>2
    <3> QED BY <2>0, <3>1, <3>2, <3>3, QuietStep
  <2>6. CASE CreateFile(p) \/ WriteCert(p)
    <3>1. pc'[p] \in Running
      BY <2>0, <2>6 DEF CreateFile, WriteCert, Running, Phases
    <3> QED BY <2>0, <2>6, <3>1, WriteStep
  <2>7. CASE UseInline(p)
    <3>1. At(p).id \in CaIds
      BY <2>7, EntryAt DEF UseInline, Entry
    <3>2. [cert |-> Own, key |-> Own, file |-> NoFile] \in Ca
      BY <2>7, Taken DEF UseInline
    <3> QED
      BY <2>0, <2>7, <3>1, <3>2, HaveStep DEF UseInline, FilesInv, WholeInv
  <2>8. CASE ReadFile(p)
    <3> DEFINE f == At(p).file
               x == [cert |-> files[f].cert, key |-> files[f].key, file |-> f]
    <3>1. At(p).id \in CaIds /\ f \in Files /\ files[f] # Absent
      BY <2>8, EntryAt DEF ReadFile, AtFile, Entry, IInv, WiringInv, ConfigInv
    <3>2. x \in Ca /\ Have(p, x) /\ Complete(files[f]) /\ files' = files
      BY <2>8, Taken DEF ReadFile
    <3>3. files[f] \in Content /\ files[f].cert = files[f].key
      BY <3>1, <3>2 DEF IInv, TypeOK, FilesInv, WholeInv
    <3>4. files[f] = Whole(x.cert) /\ x.key = x.cert
      BY <3>3 DEF Content, Whole
    <3>5. \A g \in Files : (files'[g] # Absent /\ Complete(files'[g])) => files'[g].cert = files'[g].key
      BY <3>2 DEF FilesInv, WholeInv
    <3> HIDE DEF x
    <3>6. x.file = f
      BY DEF x
    <3> QED BY <2>0, <3>1, <3>2, <3>4, <3>5, <3>6, HaveStep
  <2>9. CASE WriteKey(p)
    <3> DEFINE f == At(p).file
               x == [cert |-> Pair(p), key |-> Pair(p), file |-> f]
    <3>1. pc[p] = "writingKey" /\ pc[p] \in AtFile
      BY <2>9 DEF WriteKey, AtFile
    <3>2. At(p).id \in CaIds /\ f \in Files /\ files \in [Files -> Content \cup {Absent}]
      BY <3>1, EntryAt DEF Entry, IInv, TypeOK, WiringInv, ConfigInv
    <3>3. x \in Ca /\ Have(p, x)
      BY <2>9, <3>1, Taken DEF WriteKey
    <3>4. files[f] = [cert |-> Pair(p), key |-> Missing]
      BY <3>1 DEF FilesInv, WritingInv
    <3>5. files' = [files EXCEPT ![f] = [files[f] EXCEPT !.key = Pair(p)]]
      BY <2>9 DEF WriteKey
    <3>6. files'[f] = Whole(Pair(p)) /\ \A g \in Files \ {f} : files'[g] = files[g]
      BY <3>2, <3>4, <3>5 DEF Whole
    <3>7. \A g \in Files : files'[g] # files[g] => files[g] # Absent /\ ~ Complete(files[g])
      <4>1. files[f] # Absent
        BY <3>1, <3>2 DEF IInv, WiringInv, ConfigInv
      <4> QED BY <3>4, <3>6, <4>1 DEF Complete
    <3>8. \A g \in Files : (files'[g] # Absent /\ Complete(files'[g])) => files'[g].cert = files'[g].key
      BY <3>6 DEF FilesInv, WholeInv, Whole
    <3>9. x.file = f /\ x.cert = Pair(p) /\ x.key = Pair(p)
      OBVIOUS
    <3> HIDE DEF x
    <3> QED BY <2>0, <3>2, <3>3, <3>6, <3>7, <3>8, <3>9, HaveStep
  <2> QED
    BY <1>2, <2>3, <2>4, <2>5, <2>6, <2>7, <2>8, <2>9 DEF Step, LoadCa
<1> QED BY <1>1, <1>2 DEF Next, Step

\* What the key files hold, if processes do not overlap (load_or_bootstrap_ca).
LEMMA FilesHold ==
  ASSUME ~ Overlap
  PROVE  Spec => [](IInv /\ FilesInv)
<1>1. (IInv /\ FilesInv) /\ [Next]_vars => (IInv /\ FilesInv)'
  BY TypeStep, WiringStep, FilesStep DEF IInv
<1>2. Init => IInv /\ FilesInv
  BY InvInit, FilesInit
<1> QED BY <1>1, <1>2, PTL DEF Spec

\* A CA that is served is in its key file, if processes do not overlap and
\* whenever they are stopped (load_or_bootstrap_ca, write_ca_pem).
THEOREM Persisted ==
  ASSUME ~ Overlap
  PROVE  Spec => []ServedCaIsPersisted
<1>1. IInv /\ FilesInv => ServedCaIsPersisted
  <2> SUFFICES ASSUME FilesInv PROVE ServedCaIsPersisted
    OBVIOUS
  <2> QED BY DEF FilesInv, KeptInv, ServedCaIsPersisted, Whole
<1> QED BY <1>1, FilesHold, PTL

\* Processes that got a CA from one key file got the same, if they do not
\* overlap and whenever they are stopped (load_or_bootstrap_ca, write_ca_pem).
THEOREM Survives ==
  ASSUME ~ Overlap
  PROVE  Spec => []CaSurvivesRestarts
<1>1. IInv /\ FilesInv => CaSurvivesRestarts
  <2>1. SUFFICES ASSUME FilesInv, NEW p \in Processes, NEW q \in Processes,
                        NEW i \in CaIds, NEW j \in CaIds, cas[p][i] # NoCa, cas[q][j] # NoCa,
                        cas[p][i].file = cas[q][j].file, cas[p][i].file # NoFile
                 PROVE  cas[p][i].cert = cas[q][j].cert /\ cas[p][i].cert = cas[p][i].key
    BY DEF CaSurvivesRestarts
  <2>2. /\ files[cas[p][i].file] = Whole(cas[p][i].cert) /\ cas[p][i].key = cas[p][i].cert
        /\ files[cas[q][j].file] = Whole(cas[q][j].cert)
    BY <2>1 DEF FilesInv, KeptInv
  <2>3. Whole(cas[p][i].cert).cert = Whole(cas[q][j].cert).cert
    BY <2>1, <2>2
  <2> QED BY <2>2, <2>3 DEF Whole
<1> QED BY <1>1, FilesHold, PTL
=============================================================================
