---------------------------- MODULE Settings_proof ----------------------------
(***************************************************************************)
(* Proofs about Settings, for any number of clicks on either window, any   *)
(* number of restarts of the GUI and of file system errors: the settings   *)
(* on disk are those that were saved, and a save stores its password       *)
(* before it writes the settings that rely on it.                          *)
(***************************************************************************)
EXTENDS Settings, TLAPS

-----------------------------------------------------------------------------
(* The plan of a save.                                                     *)

\* A password, if one was entered, is written first, and the configuration
\* last (main.go:639-647, pdf_settings.go:281-292).
LEMMA PlanFacts ==
  ASSUME NEW s
  PROVE  /\ Len(Plan(s)) = IF entered[s] THEN 2 ELSE 1
         /\ entered[s] => /\ Plan(s)[1] = IF s \in FormSaves THEN "db" ELSE "smtp"
                          /\ Plan(s)[2] = "config"
         /\ ~entered[s] => Plan(s)[1] = "config"
<1> DEFINE password == IF s \in FormSaves THEN "db" ELSE "smtp"
<1>1. password \in Files /\ "config" \in Files
  BY DEF Files
<1>2. CASE entered[s]
  <2> HIDE DEF password
  <2>1. /\ Len(<<password>> \o <<"config">>) = 2
        /\ (<<password>> \o <<"config">>)[1] = password
        /\ (<<password>> \o <<"config">>)[2] = "config"
    BY <1>1
  <2> QED
    BY <1>2, <2>1 DEF Plan, password
<1>3. CASE ~entered[s]
  <2>1. Len(<<>> \o <<"config">>) = 1 /\ (<<>> \o <<"config">>)[1] = "config"
    BY <1>1
  <2> QED
    BY <1>3, <2>1 DEF Plan
<1> QED
  BY <1>2, <1>3

\* Where the saves are in their plans: the second file comes after a password,
\* only the dialog copies f.cfg while it saves, and what the user was told is
\* told at the end.
Places ==
  \A s \in Saves :
    /\ step[s] \in {1, 2}
    /\ step[s] = 2 => entered[s] /\ pc[s] # "idle"
    /\ pc[s] \in {"copy form", "copy pdf"} => s \in DialogSaves
    /\ reported[s] # "nothing" => pc[s] = "over"

\* The bounds are natural numbers.
LEMMA BoundsAreNatural == MaxRestarts \in Nat /\ MaxFaults \in Nat
BY SettingsAssumption, Zenon DEF SettingsAssumption

\* The flags have their types ...
FlagTypes ==
  /\ busy \in BOOLEAN /\ entered \in [Saves -> BOOLEAN]
  /\ cut \in BOOLEAN /\ swallowed \in BOOLEAN
  /\ overlapped \in BOOLEAN /\ behind \in BOOLEAN

\* ... and so has the rest.
FlowTypes ==
  /\ disk \in [Files -> Config \cup Saves \cup {Factory, Missing}]
  /\ disk["config"] \in Config \cup {Missing}
  /\ cfg \in Config
  /\ pc \in [Saves -> Stages]
  /\ step \in [Saves -> 1..3]
  /\ copy \in [Saves -> Config]
  /\ reported \in [Saves -> {"nothing", "ok", "failed"}]
  /\ restarts \in 0..MaxRestarts
  /\ faults \in 0..MaxFaults
  /\ kept \in Config
  /\ stored \in SUBSET Saves

\* The inductive invariant of the types.
TypeInv == FlagTypes /\ FlowTypes /\ Places

\* The two parts together are the type invariant.
LEMMA TypeParts == SettingsTypeOK <=> FlagTypes /\ FlowTypes
BY Zenon DEF SettingsTypeOK, FlagTypes, FlowTypes

\* The file a save is at, and what it puts there.
LEMMA FileFacts ==
  ASSUME FlagTypes, FlowTypes, Places, NEW s \in Saves
  PROVE  /\ File(s) \in Files
         /\ File(s) = "config" <=> (entered[s] => step[s] = 2)
         /\ File(s) = "config" => Content(s) = copy[s] /\ Content(s) \in Config
         /\ File(s) # "config" => Content(s) = s
         /\ File(s) = "config" <=> step[s] = Len(Plan(s))
<1>1. step[s] \in {1, 2} /\ (step[s] = 2 => entered[s]) /\ entered[s] \in BOOLEAN
      /\ copy[s] \in Config
  BY DEF FlagTypes, FlowTypes, Places
<1> QED
  BY <1>1, PlanFacts DEF File, Content, Files

\* A file system error is counted within the bound.
LEMMA FaultCounted == ASSUME FlowTypes, Fault PROVE faults' \in 0..MaxFaults
<1>1. faults \in 0..MaxFaults
  BY DEF FlowTypes
<1> QED
  BY <1>1, BoundsAreNatural DEF Fault

\* TypeInv holds in every reachable state.
LEMMA TypeInvInductive == Spec => []TypeInv
<1>1. Init => TypeInv
  <2> SUFFICES ASSUME Init PROVE TypeInv
    OBVIOUS
  <2>1. FactoryConfig \in Config
    BY DEF FactoryConfig, Config
  <2>2. /\ disk \in [Files -> Config \cup Saves \cup {Factory, Missing}]
        /\ disk["config"] \in Config \cup {Missing}
    BY <2>1 DEF Init, Files
  <2>3. FlowTypes
    BY <2>1, <2>2, BoundsAreNatural DEF Init, FlowTypes, Stages
  <2>4. FlagTypes
    BY DEF Init, FlagTypes
  <2>5. Places
    BY DEF Init, Places
  <2> QED
    BY <2>3, <2>4, <2>5 DEF TypeInv
<1>2. TypeInv /\ [Next]_vars => TypeInv'
  <2> SUFFICES ASSUME FlagTypes, FlowTypes, Places, [Next]_vars
               PROVE  FlagTypes' /\ FlowTypes' /\ Places'
    BY DEF TypeInv
  <2> USE BoundsAreNatural DEF Stages
  <2>1. ASSUME NEW s \in FormSaves, ClickForm(s) PROVE FlagTypes' /\ FlowTypes' /\ Places'
    <3>1. s \in Saves /\ [cfg EXCEPT !.form = s] \in Config
      BY DEF FlowTypes, Config, Saves
    <3>2. FlagTypes'
      BY <2>1 DEF ClickForm, Click, FlagTypes
    <3>3. FlowTypes'
      BY <2>1, <3>1 DEF ClickForm, Goto, FlowTypes, boundVars
    <3>4. Places'
      BY <2>1, <3>1 DEF ClickForm, Click, Goto, FlagTypes, FlowTypes, Places
    <3> QED
      BY <3>2, <3>3, <3>4
  <2>2. ASSUME NEW s \in DialogSaves, ClickDialog(s)
        PROVE  FlagTypes' /\ FlowTypes' /\ Places'
    <3>1. s \in Saves /\ [cfg EXCEPT !.pdf = s] \in Config
      BY DEF FlowTypes, Config, Saves
    <3>2. FlagTypes'
      BY <2>2 DEF ClickDialog, Click, FlagTypes
    <3>3. FlowTypes'
      BY <2>2, <3>1 DEF ClickDialog, Goto, FlowTypes, boundVars
    <3>4. Places'
      BY <2>2, <3>1 DEF ClickDialog, Click, Goto, FlagTypes, FlowTypes, Places
    <3> QED
      BY <3>2, <3>3, <3>4
  <2>3. ASSUME NEW s \in Saves,
               \/ Prepare(s) \/ PrepareFails(s) \/ NextFile(s) \/ WriteTemp(s)
        PROVE  FlagTypes' /\ FlowTypes' /\ Places'
    <3>1. PICK from, to \in Stages :
            /\ pc[s] = from /\ pc' = [pc EXCEPT ![s] = to]
            /\ from # "over" /\ to # "idle" /\ to # "copy pdf"
            /\ to = "copy form" => s \in DialogSaves
            /\ UNCHANGED <<disk, step, copy, guiVars, historyVars, boundVars>>
      BY <2>3 DEF Prepare, PrepareFails, NextFile, WriteTemp, Goto
    <3>2. FlagTypes'
      BY <3>1 DEF FlagTypes, guiVars, historyVars
    <3>3. FlowTypes'
      BY <3>1 DEF FlowTypes, guiVars, historyVars, boundVars
    <3>4. Places'
      BY <3>1 DEF FlowTypes, Places, guiVars
    <3> QED
      BY <3>2, <3>3, <3>4
  <2>4. ASSUME NEW s \in Saves, CopyForm(s) \/ CopyPdf(s)
        PROVE  FlagTypes' /\ FlowTypes' /\ Places'
    <3>1. s \in DialogSaves
      BY <2>4 DEF CopyForm, CopyPdf, Goto, Places
    <3>2. copy' \in [Saves -> Config]
      <4>1. CASE CopyForm(s)
        BY <4>1 DEF CopyForm, FlowTypes, Config
      <4>2. CASE CopyPdf(s)
        BY <4>2 DEF CopyPdf, FlowTypes, Config
      <4> QED
        BY <2>4, <4>1, <4>2
    <3>3. FlagTypes'
      BY <2>4 DEF CopyForm, CopyPdf, FlagTypes, guiVars, historyVars
    <3>4. FlowTypes'
      BY <2>4, <3>2 DEF CopyForm, CopyPdf, Goto, FlowTypes, guiVars, historyVars, boundVars
    <3>5. Places'
      BY <2>4, <3>1, ZenonT(60) DEF CopyForm, CopyPdf, Goto, FlowTypes, Places, guiVars
    <3> QED
      BY <3>3, <3>4, <3>5
  <2>5. ASSUME NEW s \in Saves, WriteTempFails(s) \/ RemoveFails(s)
        PROVE  FlagTypes' /\ FlowTypes' /\ Places'
    <3>1. FlagTypes'
      BY <2>5 DEF WriteTempFails, RemoveFails, FlagTypes, guiVars, historyVars
    <3>f. faults' \in 0..MaxFaults
      BY <2>5, FaultCounted DEF WriteTempFails, RemoveFails
    <3>2. FlowTypes'
      BY <2>5, <3>f DEF WriteTempFails, RemoveFails, Goto, FlowTypes, guiVars, historyVars
    <3>3. Places'
      BY <2>5, ZenonT(60) DEF WriteTempFails, RemoveFails, Goto, FlowTypes, Places, guiVars
    <3> QED
      BY <3>1, <3>2, <3>3
  <2>6. ASSUME NEW s \in Saves, RemoveOld(s) PROVE FlagTypes' /\ FlowTypes' /\ Places'
    <3>1. File(s) \in Files /\ disk' = [disk EXCEPT ![File(s)] = Missing]
      BY <2>6, FileFacts DEF RemoveOld
    <3>2. /\ disk' \in [Files -> Config \cup Saves \cup {Factory, Missing}]
          /\ disk'["config"] \in Config \cup {Missing}
      BY <3>1 DEF FlowTypes, Files
    <3>3. FlagTypes'
      BY <2>6 DEF RemoveOld, FlagTypes, guiVars, historyVars
    <3>4. FlowTypes'
      BY <2>6, <3>2 DEF RemoveOld, Goto, FlowTypes, guiVars, historyVars, boundVars
    <3>5. Places'
      BY <2>6 DEF RemoveOld, Goto, FlowTypes, Places, guiVars
    <3> QED
      BY <3>3, <3>4, <3>5
  <2>7. ASSUME NEW s \in Saves, Advance(s)
        PROVE  /\ pc' \in [Saves -> Stages] /\ step' \in [Saves -> 1..3]
               /\ UNCHANGED <<entered, reported>> => Places'
    <3>1. step[s] = Len(Plan(s)) \/ (step[s] = 1 /\ entered[s])
      <4>1. step[s] \in {1, 2} /\ (step[s] = 2 => entered[s])
        BY DEF Places
      <4> QED
        BY <4>1, PlanFacts
    <3>2. \/ step' = step /\ pc' = [pc EXCEPT ![s] = "written"]
          \/ /\ step' = [step EXCEPT ![s] = 2] /\ pc' = [pc EXCEPT ![s] = "next"]
             /\ entered[s]
      BY <2>7, <3>1 DEF Advance, Goto
    <3>3. pc[s] = "rename"
      BY <2>7 DEF Advance, Goto
    <3>p. pc' \in [Saves -> Stages]
      BY <3>2 DEF FlowTypes
    <3>s. step \in [Saves -> 1..3]
      BY DEF FlowTypes
    <3>4. pc' \in [Saves -> Stages] /\ step' \in [Saves -> 1..3]
      <4>1. CASE step' = step
        BY <3>p, <3>s, <4>1
      <4>2. CASE step' = [step EXCEPT ![s] = 2]
        <5>1. \A S : step \in [Saves -> S] /\ 2 \in S => step' \in [Saves -> S]
          BY <4>2
        <5>2. 2 \in 1..3
          OBVIOUS
        <5> QED
          BY <3>p, <3>s, <5>1, <5>2
      <4> QED
        BY <3>2, <4>1, <4>2
    <3>5. ASSUME UNCHANGED <<entered, reported>> PROVE Places'
      BY <3>2, <3>3, <3>5, ZenonT(60) DEF Places, FlowTypes
    <3> QED
      BY <3>4, <3>5
  <2>8. ASSUME NEW s \in Saves, Rename(s) PROVE FlagTypes' /\ FlowTypes' /\ Places'
    <3>1. /\ File(s) \in Files /\ disk' = [disk EXCEPT ![File(s)] = Content(s)]
          /\ File(s) = "config" => Content(s) \in Config
          /\ File(s) # "config" => Content(s) \in Saves
      BY <2>8, FileFacts DEF Rename
    <3>2. /\ disk' \in [Files -> Config \cup Saves \cup {Factory, Missing}]
          /\ disk'["config"] \in Config \cup {Missing}
      BY <3>1 DEF FlowTypes, Files
    <3>3. kept' \in Config /\ stored' \in SUBSET Saves
      BY <2>8, ZenonT(60) DEF Rename, FlowTypes, Config, Saves
    <3>4. FlagTypes'
      BY <2>8 DEF Rename, FlagTypes, guiVars
    <3>5. UNCHANGED <<copy, cfg, reported, restarts, faults, entered>>
      BY <2>8 DEF Rename, guiVars, boundVars
    <3>6. FlowTypes'
      BY <2>7, <2>8, <3>2, <3>3, <3>5 DEF Rename, FlowTypes
    <3>7. Places'
      BY <2>7, <2>8, <3>5 DEF Rename
    <3> QED
      BY <3>4, <3>6, <3>7
  <2>9. ASSUME NEW s \in Saves, RenameFails(s) PROVE FlagTypes' /\ FlowTypes' /\ Places'
    <3>1. /\ UNCHANGED <<disk, copy, guiVars, kept, stored, overlapped, behind, restarts>>
          /\ faults' \in 0..MaxFaults
      BY <2>9, FaultCounted DEF RenameFails
    <3>2. FlagTypes'
      BY <2>9 DEF RenameFails, FlagTypes, guiVars
    <3>3. /\ pc' \in [Saves -> Stages] /\ step' \in [Saves -> 1..3]
          /\ Places'
      <4>1. CASE File(s) = "config"
        <5>1. pc[s] = "rename" /\ pc' = [pc EXCEPT ![s] = "error"] /\ step' = step
          BY <2>9, <4>1 DEF RenameFails, Goto
        <5> QED
          BY <3>1, <5>1 DEF FlowTypes, Places, guiVars
      <4>2. CASE File(s) # "config"
        BY <2>7, <2>9, <3>1, <4>2 DEF RenameFails, guiVars
      <4> QED
        BY <4>1, <4>2
    <3>4. FlowTypes'
      BY <3>1, <3>3 DEF FlowTypes, guiVars
    <3> QED
      BY <3>2, <3>3, <3>4
  <2>10. ASSUME NEW s \in Saves,
                FormSaved(s) \/ StartFails(s) \/ FormFails(s) \/ DialogEnds(s)
         PROVE  FlagTypes' /\ FlowTypes' /\ Places'
    <3>1. PICK result \in {"ok", "failed"} :
            /\ reported' = [reported EXCEPT ![s] = result]
            /\ pc' = [pc EXCEPT ![s] = "over"]
      BY <2>10 DEF FormSaved, StartFails, FormFails, DialogEnds, Report, Goto
    <3>2. /\ cfg' \in Config
          /\ UNCHANGED <<disk, step, copy, entered, kept, stored, restarts, faults>>
      BY <2>10 DEF FormSaved, StartFails, FormFails, DialogEnds, FlowTypes, historyVars,
         boundVars
    <3>3. FlagTypes'
      BY <2>10 DEF FormSaved, StartFails, FormFails, DialogEnds, FlagTypes, historyVars
    <3>4. FlowTypes'
      BY <3>1, <3>2 DEF FlowTypes
    <3>5. Places'
      BY <3>1, <3>2 DEF Places, FlowTypes
    <3> QED
      BY <3>3, <3>4, <3>5
  <2>11. CASE Restart
    <3>1. FactoryConfig \in Config
      BY DEF FactoryConfig, Config
    <3>2. FlagTypes'
      BY <2>11 DEF Restart, FlagTypes
    <3>3. cfg' \in Config /\ kept' \in Config
      BY <2>11, <3>1 DEF Restart, FlowTypes
    <3>r. restarts \in 0..MaxRestarts
      BY DEF FlowTypes
    <3>s. restarts' \in 0..MaxRestarts
      BY <2>11, <3>r DEF Restart
    <3>p. pc' \in [Saves -> Stages]
      BY <2>11 DEF Restart, FlowTypes
    <3>4. pc' \in [Saves -> Stages] /\ restarts' \in 0..MaxRestarts
      BY <3>s, <3>p
    <3>5. UNCHANGED <<disk, step, copy, entered, reported, stored, faults>>
      BY <2>11 DEF Restart
    <3>6. FlowTypes'
      BY <3>3, <3>4, <3>5 DEF FlowTypes
    <3>7. Places'
      BY <2>11 DEF Restart, FlowTypes, Places, InProgress
    <3> QED
      BY <3>2, <3>6, <3>7
  <2>12. CASE UNCHANGED vars
    BY <2>12 DEF vars, guiVars, historyVars, boundVars, FlagTypes, FlowTypes, Places
  <2> QED
    BY <2>1, <2>2, <2>3, <2>4, <2>5, <2>6, <2>8, <2>9, <2>10, <2>11, <2>12
       DEF Next, SaveStep
<1> QED
  BY <1>1, <1>2, PTL DEF Spec

\* The settings' variables keep their types: the plan of a save is never
\* exceeded, and the configuration file holds a configuration or is missing
\* (io.go:81-114, secrets.go:74-96).
THEOREM SettingsTypeCorrect == Spec => []SettingsTypeOK
BY TypeInvInductive, TypeParts, PTL DEF TypeInv
-----------------------------------------------------------------------------
(* Passwords.                                                              *)

\* What a step of a save that replaces no file, or reports, does to its plan.
LEMMA SaveGoesOn ==
  ASSUME FlowTypes, NEW s \in Saves,
         \/ Prepare(s) \/ PrepareFails(s) \/ NextFile(s) \/ CopyForm(s) \/ CopyPdf(s)
         \/ WriteTemp(s) \/ WriteTempFails(s) \/ RemoveOld(s) \/ RemoveFails(s)
         \/ FormSaved(s) \/ StartFails(s) \/ FormFails(s) \/ DialogEnds(s)
  PROVE  /\ UNCHANGED <<step, entered, kept, stored, cut, swallowed, overlapped>>
         /\ pc[s] # "idle" /\ pc'[s] # "idle"
         /\ \A q \in Saves : q # s => pc'[q] = pc[q]
<1>1. UNCHANGED <<step, entered, kept, stored, cut, swallowed, overlapped>>
  BY DEF Prepare, PrepareFails, NextFile, CopyForm, CopyPdf, WriteTemp, WriteTempFails,
     RemoveOld, RemoveFails, FormSaved, StartFails, FormFails, DialogEnds, guiVars, historyVars
<1>2. PICK from, to \in Stages : /\ from # "idle" /\ to # "idle"
                                 /\ pc[s] = from /\ pc' = [pc EXCEPT ![s] = to]
  BY DEF Prepare, PrepareFails, NextFile, CopyForm, CopyPdf, WriteTemp, WriteTempFails,
     RemoveOld, RemoveFails, FormSaved, StartFails, FormFails, DialogEnds, Report, Goto, Stages
<1> QED
  BY <1>1, <1>2 DEF FlowTypes

\* What advancing in the plan does: after the password comes the configuration,
\* and after the configuration the save is done.
LEMMA AdvanceFacts ==
  ASSUME FlagTypes, FlowTypes, Places, NEW s \in Saves, Advance(s)
  PROVE  /\ pc[s] = "rename"
         /\ \A q \in Saves : q # s => pc'[q] = pc[q] /\ step'[q] = step[q]
         /\ File(s) = "config" => pc'[s] = "written" /\ step' = step
         /\ File(s) # "config" => pc'[s] = "next" /\ step'[s] = 2
<1>1. step[s] \in {1, 2} /\ step \in [Saves -> 1..3] /\ pc \in [Saves -> Stages]
  BY DEF Places, FlowTypes
<1>2. CASE File(s) = "config"
  BY <1>1, <1>2, FileFacts DEF Advance, Goto
<1>3. CASE File(s) # "config"
  <2>1. step[s] = 1 /\ step[s] # Len(Plan(s))
    BY <1>1, <1>3, FileFacts
  <2>2. step' = [step EXCEPT ![s] = 2] /\ pc' = [pc EXCEPT ![s] = "next"] /\ pc[s] = "rename"
    BY <2>1 DEF Advance, Goto
  <2> QED
    BY <1>1, <1>3, <2>2
<1> QED
  BY <1>2, <1>3

\* The save whose settings last reached the configuration file had stored its
\* password before, and a save that is past its password has stored it.
PasswordStored ==
  \A s \in Saves :
    /\ step[s] = 2 /\ ~swallowed => s \in stored
    /\ s \in {kept.form, kept.pdf} =>
         pc[s] # "idle" /\ (entered[s] /\ ~swallowed => s \in stored)

\* PasswordStored holds in every reachable state (main.go:639-647).
LEMMA PasswordStoredInductive == Spec => []PasswordStored
<1>1. Init => PasswordStored
  <2> SUFFICES ASSUME Init PROVE PasswordStored
    OBVIOUS
  <2>1. kept.form = Factory /\ kept.pdf = Factory /\ Factory \notin Saves
    BY SettingsAssumption DEF Init, FactoryConfig, SettingsAssumption
  <2> QED
    BY <2>1 DEF Init, PasswordStored
<1>2. TypeInv /\ PasswordStored /\ [Next]_vars => PasswordStored'
  <2> SUFFICES ASSUME FlagTypes, FlowTypes, Places, PasswordStored, [Next]_vars
               PROVE  PasswordStored'
    BY DEF TypeInv
  <2>1. ASSUME NEW s \in Saves,
               pc[s] = "idle", pc' = [pc EXCEPT ![s] = "prepare"] \/ pc' = [pc EXCEPT ![s] = "next"],
               Click(s), UNCHANGED <<step, kept, stored, swallowed>>
        PROVE  PasswordStored'
    <3>1. \A q \in Saves : q # s => entered'[q] = entered[q] /\ pc'[q] = pc[q]
      BY <2>1 DEF Click, FlagTypes, FlowTypes
    <3>2. s \notin {kept.form, kept.pdf} /\ step[s] # 2
      BY <2>1 DEF PasswordStored, Places
    <3> QED
      BY <2>1, <3>1, <3>2 DEF PasswordStored
  <2>2. ASSUME NEW s \in FormSaves, ClickForm(s) PROVE PasswordStored'
    BY <2>1, <2>2 DEF ClickForm, Goto, Saves
  <2>3. ASSUME NEW s \in DialogSaves, ClickDialog(s) PROVE PasswordStored'
    BY <2>1, <2>3 DEF ClickDialog, Goto, Saves
  <2>4. ASSUME NEW s \in Saves,
               \/ Prepare(s) \/ PrepareFails(s) \/ NextFile(s) \/ CopyForm(s) \/ CopyPdf(s)
               \/ WriteTemp(s) \/ WriteTempFails(s) \/ RemoveOld(s) \/ RemoveFails(s)
               \/ FormSaved(s) \/ StartFails(s) \/ FormFails(s) \/ DialogEnds(s)
        PROVE  PasswordStored'
    <3>1. /\ UNCHANGED <<step, entered, kept, stored, swallowed>>
          /\ pc'[s] # "idle" /\ \A q \in Saves : q # s => pc'[q] = pc[q]
      BY <2>4, SaveGoesOn
    <3> QED
      BY <3>1 DEF PasswordStored
  <2>5. ASSUME NEW s \in Saves, Rename(s), File(s) = "config" PROVE PasswordStored'
    <3>1. /\ UNCHANGED <<step, entered, stored, swallowed>> /\ pc'[s] # "idle"
          /\ \A q \in Saves : q # s => pc'[q] = pc[q]
      BY <2>5, AdvanceFacts DEF Rename, guiVars
    <3>2. {kept'.form, kept'.pdf} \subseteq {kept.form, kept.pdf, s}
      BY <2>5 DEF Rename, FlowTypes, Config
    <3>3. entered[s] => step[s] = 2
      BY <2>5, FileFacts
    <3> QED
      BY <3>1, <3>2, <3>3 DEF PasswordStored
  <2>6. ASSUME NEW s \in Saves, Rename(s), File(s) # "config" PROVE PasswordStored'
    <3>1. /\ UNCHANGED <<entered, kept, swallowed>> /\ stored' = stored \cup {s}
          /\ pc'[s] # "idle" /\ \A q \in Saves : q # s => pc'[q] = pc[q] /\ step'[q] = step[q]
      BY <2>6, AdvanceFacts DEF Rename, guiVars
    <3> QED
      BY <3>1 DEF PasswordStored
  <2>7. ASSUME NEW s \in Saves, RenameFails(s) PROVE PasswordStored'
    <3>1. UNCHANGED <<entered, kept, stored>>
      BY <2>7 DEF RenameFails, guiVars
    <3>2. CASE File(s) = "config"
      <4>1. UNCHANGED <<step, swallowed>> /\ pc' = [pc EXCEPT ![s] = "error"]
        BY <2>7, <3>2 DEF RenameFails, Goto
      <4> QED
        BY <3>1, <4>1 DEF PasswordStored, FlowTypes
    <3>3. CASE File(s) # "config"
      <4>1. swallowed' /\ pc'[s] # "idle" /\ \A q \in Saves : q # s => pc'[q] = pc[q]
        BY <2>7, <3>3, AdvanceFacts DEF RenameFails
      <4> QED
        BY <3>1, <4>1 DEF PasswordStored
    <3> QED
      BY <3>2, <3>3
  <2>8. CASE Restart
    <3>1. /\ UNCHANGED <<step, entered, stored, swallowed>>
          /\ \A s \in Saves : pc[s] # "idle" => pc'[s] # "idle"
      BY <2>8 DEF Restart, FlowTypes
    <3>2. kept' = FactoryConfig \/ kept' = kept
      BY <2>8 DEF Restart
    <3>3. FactoryConfig.form \notin Saves /\ FactoryConfig.pdf \notin Saves
      BY SettingsAssumption DEF FactoryConfig, SettingsAssumption
    <3> QED
      BY <3>1, <3>2, <3>3 DEF PasswordStored
  <2>9. CASE UNCHANGED vars
    BY <2>9 DEF vars, guiVars, historyVars, PasswordStored
  <2> QED
    BY <2>2, <2>3, <2>4, <2>5, <2>6, <2>7, <2>8, <2>9 DEF Next, SaveStep
<1> QED
  BY <1>1, <1>2, TypeInvInductive, PTL DEF Spec

\* A save that is through its plan, or was reported so, is past its password.
Finished ==
  \A s \in Saves : (pc[s] = "written" \/ reported[s] = "ok") /\ entered[s] => step[s] = 2

\* Finished holds in every reachable state.
LEMMA FinishedInductive == Spec => []Finished
<1>1. Init => Finished
  BY DEF Init, Finished
<1>2. TypeInv /\ Finished /\ [Next]_vars => Finished'
  <2> SUFFICES ASSUME FlagTypes, FlowTypes, Places, Finished, [Next]_vars
               PROVE  Finished'
    BY DEF TypeInv
  <2>1. ASSUME NEW s \in Saves,
               pc[s] = "idle", pc' = [pc EXCEPT ![s] = "prepare"] \/ pc' = [pc EXCEPT ![s] = "next"],
               Click(s), UNCHANGED <<step, reported>>
        PROVE  Finished'
    <3>1. \A q \in Saves : q # s => entered'[q] = entered[q] /\ pc'[q] = pc[q]
      BY <2>1 DEF Click, FlagTypes, FlowTypes
    <3>2. pc'[s] # "written" /\ reported[s] # "ok"
      BY <2>1 DEF FlowTypes, Places
    <3> QED
      BY <2>1, <3>1, <3>2 DEF Finished
  <2>2. ASSUME NEW s \in FormSaves, ClickForm(s) PROVE Finished'
    BY <2>1, <2>2 DEF ClickForm, Goto, Saves
  <2>3. ASSUME NEW s \in DialogSaves, ClickDialog(s) PROVE Finished'
    BY <2>1, <2>3 DEF ClickDialog, Goto, Saves
  <2>4. ASSUME NEW s \in Saves,
               \/ Prepare(s) \/ PrepareFails(s) \/ NextFile(s) \/ CopyForm(s) \/ CopyPdf(s)
               \/ WriteTemp(s) \/ WriteTempFails(s) \/ RemoveOld(s) \/ RemoveFails(s)
        PROVE  Finished'
    <3>1. UNCHANGED <<step, entered>> /\ \A q \in Saves : q # s => pc'[q] = pc[q]
      BY <2>4, SaveGoesOn
    <3>2. PICK to \in Stages \ {"written"} : pc' = [pc EXCEPT ![s] = to]
      BY <2>4 DEF Prepare, PrepareFails, NextFile, CopyForm, CopyPdf, WriteTemp, WriteTempFails,
         RemoveOld, RemoveFails, Goto, Stages
    <3>3. reported' = reported
      BY <2>4 DEF Prepare, PrepareFails, NextFile, CopyForm, CopyPdf, WriteTemp, WriteTempFails,
         RemoveOld, RemoveFails, guiVars
    <3> QED
      BY <3>1, <3>2, <3>3 DEF Finished, FlowTypes
  <2>5. ASSUME NEW s \in Saves, FormSaved(s) \/ StartFails(s) \/ FormFails(s) \/ DialogEnds(s)
        PROVE  Finished'
    <3>1. /\ UNCHANGED <<step, entered>> /\ \A q \in Saves : q # s => pc'[q] = pc[q]
      BY <2>5, SaveGoesOn
    <3>2. /\ pc'[s] = "over" /\ \A q \in Saves : q # s => reported'[q] = reported[q]
          /\ reported'[s] = "ok" => pc[s] = "written"
      BY <2>5 DEF FormSaved, StartFails, FormFails, DialogEnds, Report, Goto, FlowTypes
    <3> QED
      BY <3>1, <3>2 DEF Finished
  <2>6. ASSUME NEW s \in Saves, Rename(s) \/ RenameFails(s) PROVE Finished'
    <3>1. UNCHANGED <<entered, reported>> /\ reported[s] # "ok"
      BY <2>6 DEF Rename, RenameFails, Advance, Goto, guiVars, Places
    <3>2. CASE File(s) = "config"
      <4>1. entered[s] => step[s] = 2
        BY <3>2, FileFacts
      <4>2. step' = step /\ \A q \in Saves : q # s => pc'[q] = pc[q]
        BY <2>6, <3>2, AdvanceFacts DEF Rename, RenameFails, Goto, FlowTypes
      <4> QED
        BY <3>1, <4>1, <4>2 DEF Finished
    <3>3. CASE File(s) # "config"
      <4>1. /\ \A q \in Saves : q # s => pc'[q] = pc[q] /\ step'[q] = step[q]
            /\ step'[s] = 2
        BY <2>6, <3>3, AdvanceFacts DEF Rename, RenameFails
      <4> QED
        BY <3>1, <4>1 DEF Finished
    <3> QED
      BY <3>2, <3>3
  <2>7. CASE Restart
    <3>1. /\ UNCHANGED <<step, entered, reported>>
          /\ \A s \in Saves : pc'[s] = "written" => pc[s] = "written"
      BY <2>7 DEF Restart, FlowTypes
    <3> QED
      BY <3>1 DEF Finished
  <2>8. CASE UNCHANGED vars
    BY <2>8 DEF vars, guiVars, Finished
  <2> QED
    BY <2>2, <2>3, <2>4, <2>5, <2>6, <2>7, <2>8 DEF Next, SaveStep
<1> QED
  BY <1>1, <1>2, TypeInvInductive, PTL DEF Spec

\* Form settings whose password, if one was entered with them, is stored.
Trusted(x) ==
  x \in FormSaves => pc[x] # "idle" /\ (entered[x] /\ ~swallowed => x \in stored)

\* The form settings anywhere are such, but for a save's own in its copy.
FormsTrusted ==
  /\ Trusted(cfg.form)
  /\ disk["config"] # Missing => Trusted(disk["config"].form)
  /\ \A s \in Saves : copy[s].form = s \/ Trusted(copy[s].form)

\* Settings stay trusted in a step that clicks no save a second time.
LEMMA TrustedStays ==
  ASSUME NEW x, Trusted(x), stored \subseteq stored', swallowed => swallowed',
         \A q \in Saves : pc[q] # "idle" => pc'[q] # "idle" /\ entered'[q] = entered[q]
  PROVE  Trusted(x)'
BY DEF Trusted, Saves

\* What every step of a save but the last keeps.
LEMMA SaveKeepsTrust ==
  ASSUME FlagTypes, FlowTypes, Places, NEW s \in Saves, SaveStep(s)
  PROVE  /\ stored \subseteq stored' /\ (swallowed => swallowed')
         /\ \A q \in Saves : pc[q] # "idle" => pc'[q] # "idle" /\ entered'[q] = entered[q]
<1>1. CASE Rename(s) \/ RenameFails(s)
  <2>1. entered' = entered /\ stored \subseteq stored' /\ (swallowed => swallowed')
    BY <1>1 DEF Rename, RenameFails, guiVars
  <2>2. pc'[s] # "idle" /\ \A q \in Saves : q # s => pc'[q] = pc[q]
    BY <1>1, AdvanceFacts DEF Rename, RenameFails, Goto, FlowTypes
  <2> QED
    BY <2>1, <2>2
<1>2. CASE ~(Rename(s) \/ RenameFails(s))
  <2>1. /\ UNCHANGED <<entered, stored, swallowed>> /\ pc'[s] # "idle"
        /\ \A q \in Saves : q # s => pc'[q] = pc[q]
    BY <1>2, SaveGoesOn DEF SaveStep
  <2> QED
    BY <2>1
<1> QED
  BY <1>1, <1>2

\* FormsTrusted holds in every reachable state (main.go:554, 639-647).
LEMMA FormsTrustedInductive == Spec => []FormsTrusted
<1>f. FactoryConfig.form = Factory /\ Factory \notin FormSaves
  BY SettingsAssumption DEF FactoryConfig, SettingsAssumption, Saves
<1>1. Init => FormsTrusted
  <2> SUFFICES ASSUME Init PROVE FormsTrusted
    OBVIOUS
  <2>1. Trusted(FactoryConfig.form)
    BY <1>f DEF Trusted
  <2>2. disk["config"] \in {FactoryConfig, Missing}
    BY DEF Init
  <2> QED
    BY <2>1, <2>2 DEF Init, FormsTrusted
<1>2. TypeInv /\ PasswordStored /\ Finished /\ FormsTrusted /\ [Next]_vars => FormsTrusted'
  <2> SUFFICES ASSUME FlagTypes, FlowTypes, Places, PasswordStored, Finished, FormsTrusted,
                      [Next]_vars
               PROVE  FormsTrusted'
    BY DEF TypeInv
  <2>t. /\ cfg \in Config /\ copy \in [Saves -> Config] /\ pc \in [Saves -> Stages]
        /\ disk \in [Files -> Config \cup Saves \cup {Factory, Missing}]
        /\ disk["config"] \in Config \cup {Missing}
    BY DEF FlowTypes
  <2>1. ASSUME NEW s \in Saves, pc[s] = "idle", Click(s), UNCHANGED <<disk, stored, swallowed>>,
               pc' = [pc EXCEPT ![s] = "prepare"] \/ pc' = [pc EXCEPT ![s] = "next"]
        PROVE  \A x : Trusted(x) => Trusted(x)'
    <3>1. \A q \in Saves : pc[q] # "idle" => pc'[q] # "idle" /\ entered'[q] = entered[q]
      BY <2>1 DEF Click, FlagTypes, FlowTypes
    <3> QED
      BY <2>1, <3>1, TrustedStays
  <2>2. ASSUME NEW s \in FormSaves, ClickForm(s) PROVE FormsTrusted'
    <3>1. \A x : Trusted(x) => Trusted(x)'
      BY <2>1, <2>2 DEF ClickForm, Goto, Saves
    <3>2. UNCHANGED <<cfg, disk>> /\ copy' = [copy EXCEPT ![s] = [cfg EXCEPT !.form = s]]
      BY <2>2 DEF ClickForm
    <3>3. copy'[s].form = s /\ \A q \in Saves : q # s => copy'[q] = copy[q]
      BY <2>t, <3>2 DEF Saves, Config
    <3> QED
      BY <3>1, <3>2, <3>3 DEF FormsTrusted
  <2>3. ASSUME NEW s \in DialogSaves, ClickDialog(s) PROVE FormsTrusted'
    <3>1. \A x : Trusted(x) => Trusted(x)'
      BY <2>1, <2>3 DEF ClickDialog, Goto, Saves
    <3>2. UNCHANGED <<copy, disk>> /\ cfg'.form = cfg.form
      BY <2>t, <2>3 DEF ClickDialog, Config
    <3> QED
      BY <3>1, <3>2 DEF FormsTrusted
  <2>4. ASSUME NEW s \in Saves, SaveStep(s)
        PROVE  \A x : Trusted(x) => Trusted(x)'
    BY <2>4, SaveKeepsTrust, TrustedStays
  <2>5. ASSUME NEW s \in Saves,
               \/ Prepare(s) \/ PrepareFails(s) \/ NextFile(s) \/ CopyPdf(s)
               \/ WriteTemp(s) \/ WriteTempFails(s) \/ RemoveOld(s) \/ RemoveFails(s)
               \/ RenameFails(s) \/ StartFails(s) \/ FormFails(s) \/ DialogEnds(s)
        PROVE  FormsTrusted'
    <3>1. \A x : Trusted(x) => Trusted(x)'
      BY <2>4, <2>5 DEF SaveStep
    <3>2. cfg' = cfg
      BY <2>5 DEF Prepare, PrepareFails, NextFile, CopyPdf, WriteTemp, WriteTempFails,
         RemoveOld, RemoveFails, RenameFails, StartFails, FormFails, DialogEnds, guiVars
    <3>3. \A q \in Saves : copy'[q].form = copy[q].form
      <4>1. CASE CopyPdf(s)
        BY <2>t, <4>1 DEF CopyPdf, Config
      <4>2. CASE ~CopyPdf(s)
        BY <2>5, <4>2 DEF Prepare, PrepareFails, NextFile, WriteTemp, WriteTempFails,
           RemoveOld, RemoveFails, RenameFails, StartFails, FormFails, DialogEnds
      <4> QED
        BY <4>1, <4>2
    <3>4. disk'["config"] = disk["config"] \/ disk'["config"] = Missing
      <4>1. CASE RemoveOld(s)
        BY <2>t, <4>1 DEF RemoveOld, Files
      <4>2. CASE ~RemoveOld(s)
        BY <2>5, <4>2 DEF Prepare, PrepareFails, NextFile, CopyPdf, WriteTemp, WriteTempFails,
           RemoveFails, RenameFails, StartFails, FormFails, DialogEnds
      <4> QED
        BY <4>1, <4>2
    <3> QED
      BY <3>1, <3>2, <3>3, <3>4 DEF FormsTrusted
  <2>6. ASSUME NEW s \in Saves, CopyForm(s) PROVE FormsTrusted'
    <3>1. \A x : Trusted(x) => Trusted(x)'
      BY <2>4, <2>6 DEF SaveStep
    <3>2. UNCHANGED <<cfg, disk>> /\ copy' = [copy EXCEPT ![s].form = cfg.form]
      BY <2>6 DEF CopyForm, guiVars
    <3>3. copy'[s].form = cfg.form /\ \A q \in Saves : q # s => copy'[q] = copy[q]
      BY <2>t, <3>2 DEF Config
    <3> QED
      BY <3>1, <3>2, <3>3 DEF FormsTrusted
  <2>7. ASSUME NEW s \in Saves, Rename(s) PROVE FormsTrusted'
    <3>1. \A x : Trusted(x) => Trusted(x)'
      BY <2>4, <2>7 DEF SaveStep
    <3>2. UNCHANGED <<cfg, copy>>
      BY <2>7 DEF Rename, guiVars
    <3>3. CASE File(s) # "config"
      <4>1. disk'["config"] = disk["config"]
        BY <2>t, <2>7, <3>3 DEF Rename, Files
      <4> QED
        BY <3>1, <3>2, <4>1 DEF FormsTrusted
    <3>4. CASE File(s) = "config"
      <4>1. disk'["config"] = copy[s]
        BY <2>t, <2>7, <3>4, FileFacts DEF Rename, Files
      <4>2. Trusted(s)'
        <5>1. entered[s] => step[s] = 2
          BY <3>4, FileFacts
        <5>2. pc[s] = "rename"
          BY <2>7, AdvanceFacts DEF Rename
        <5>3. Trusted(s)
          BY <5>1, <5>2 DEF Trusted, PasswordStored
        <5> QED
          BY <3>1, <5>3
      <4> QED
        BY <3>1, <3>2, <4>1, <4>2 DEF FormsTrusted
    <3> QED
      BY <3>3, <3>4
  <2>8. ASSUME NEW s \in Saves, FormSaved(s) PROVE FormsTrusted'
    <3>1. \A x : Trusted(x) => Trusted(x)'
      BY <2>4, <2>8 DEF SaveStep
    <3>2. UNCHANGED <<disk, copy>> /\ cfg' = copy[s] /\ pc[s] = "written"
      BY <2>8 DEF FormSaved, Report, Goto
    <3>3. Trusted(s)
      BY <3>2 DEF Trusted, PasswordStored, Finished
    <3> QED
      BY <3>1, <3>2, <3>3 DEF FormsTrusted
  <2>9. CASE Restart
    <3>1. /\ UNCHANGED <<disk, copy, entered, stored, swallowed>>
          /\ cfg' = IF disk["config"] = Missing THEN FactoryConfig ELSE disk["config"]
          /\ \A q \in Saves : pc[q] # "idle" => pc'[q] # "idle"
      BY <2>9 DEF Restart, FlowTypes
    <3>2. \A x : Trusted(x) => Trusted(x)'
      BY <3>1, TrustedStays
    <3>3. Trusted(FactoryConfig.form)
      BY <1>f DEF Trusted
    <3> QED
      BY <3>1, <3>2, <3>3 DEF FormsTrusted
  <2>10. CASE UNCHANGED vars
    BY <2>10 DEF vars, guiVars, historyVars, FormsTrusted, Trusted
  <2> QED
    BY <2>2, <2>3, <2>5, <2>6, <2>7, <2>8, <2>9, <2>10 DEF Next, SaveStep
<1> QED
  BY <1>1, <1>2, TypeInvInductive, PasswordStoredInductive, FinishedInductive, PTL DEF Spec

\* PasswordBeforeConfig holds in every state: whoever writes the file, the
\* password of its form settings was stored before, and that of its dialog
\* settings if a save of the dialog wrote them or was reported to have succeeded;
\* unless the renaming of a secret failed (main.go:554, 639-647,
\* pdf_settings.go:256-292, secrets.go:94-96).
THEOREM SettingsPasswordBeforeConfig == Spec => []PasswordBeforeConfig
<1>1. TypeInv /\ PasswordStored /\ Finished /\ FormsTrusted => PasswordBeforeConfig
  <2> SUFFICES ASSUME PasswordStored, Finished, FormsTrusted, ~swallowed, disk["config"] # Missing,
                      NEW form, form = disk["config"].form, NEW pdf, pdf = disk["config"].pdf
               PROVE  /\ form \in FormSaves /\ entered[form] => form \in stored
                      /\ pdf \in DialogSaves /\ entered[pdf] =>
                           \/ pdf \in stored
                           \/ pdf # kept.pdf /\ reported[pdf] # "ok"
    BY DEF PasswordBeforeConfig
  <2>1. form \in FormSaves /\ entered[form] => form \in stored
    BY DEF FormsTrusted, Trusted
  <2>2. ASSUME pdf \in DialogSaves, entered[pdf], pdf = kept.pdf \/ reported[pdf] = "ok"
        PROVE  pdf \in stored
    BY <2>2 DEF PasswordStored, Finished, Saves
  <2> QED
    BY <2>1, <2>2
<1> QED
  BY <1>1, TypeInvInductive, PasswordStoredInductive, FinishedInductive,
     FormsTrustedInductive, PTL
-----------------------------------------------------------------------------
(* The settings in the file.                                               *)

\* As long as saves did not overlap there is one in progress at most.
OneAtATime == ~overlapped => \A s, q \in Saves : InProgress(s) /\ InProgress(q) => s = q

\* OneAtATime holds in every reachable state.
LEMMA OneAtATimeInductive == Spec => []OneAtATime
<1>1. Init => OneAtATime
  BY DEF Init, OneAtATime, InProgress
<1>2. TypeInv /\ OneAtATime /\ [Next]_vars => OneAtATime'
  <2> SUFFICES ASSUME FlagTypes, FlowTypes, Places, OneAtATime, [Next]_vars
               PROVE  OneAtATime'
    BY DEF TypeInv
  <2>1. ASSUME NEW s \in Saves, Click(s), \A q \in Saves : q # s => pc'[q] = pc[q]
        PROVE  OneAtATime'
    BY <2>1 DEF Click, Quiet, OneAtATime, InProgress
  <2>2. ASSUME NEW s \in FormSaves, ClickForm(s) PROVE OneAtATime'
    BY <2>1, <2>2 DEF ClickForm, Goto, FlowTypes, Saves
  <2>3. ASSUME NEW s \in DialogSaves, ClickDialog(s) PROVE OneAtATime'
    BY <2>1, <2>3 DEF ClickDialog, Goto, FlowTypes, Saves
  <2>4. ASSUME UNCHANGED overlapped, \A s \in Saves : InProgress(s)' => InProgress(s)
        PROVE  OneAtATime'
    BY <2>4 DEF OneAtATime
  <2>5. ASSUME NEW s \in Saves,
               \/ Prepare(s) \/ PrepareFails(s) \/ NextFile(s) \/ CopyForm(s) \/ CopyPdf(s)
               \/ WriteTemp(s) \/ WriteTempFails(s) \/ RemoveOld(s) \/ RemoveFails(s)
               \/ FormSaved(s) \/ StartFails(s) \/ FormFails(s) \/ DialogEnds(s)
        PROVE  OneAtATime'
    <3>1. pc[s] # "over"
      BY <2>5 DEF Prepare, PrepareFails, NextFile, CopyForm, CopyPdf, WriteTemp,
         WriteTempFails, RemoveOld, RemoveFails, FormSaved, StartFails, FormFails, DialogEnds,
         Report, Goto
    <3> QED
      BY <2>4, <2>5, <3>1, SaveGoesOn DEF InProgress
  <2>6. ASSUME NEW s \in Saves, Rename(s) \/ RenameFails(s) PROVE OneAtATime'
    <3>1. UNCHANGED overlapped /\ pc[s] = "rename"
      BY <2>6, AdvanceFacts DEF Rename, RenameFails, Goto
    <3>2. \A q \in Saves : q # s => pc'[q] = pc[q]
      BY <2>6, AdvanceFacts DEF Rename, RenameFails, Goto, FlowTypes
    <3> QED
      BY <2>4, <3>1, <3>2 DEF InProgress
  <2>7. CASE Restart
    BY <2>4, <2>7 DEF Restart, FlowTypes, InProgress
  <2>8. CASE UNCHANGED vars
    BY <2>4, <2>8 DEF vars, historyVars, InProgress
  <2> QED
    BY <2>2, <2>3, <2>5, <2>6, <2>7, <2>8 DEF Next, SaveStep
<1> QED
  BY <1>1, <1>2, TypeInvInductive, PTL DEF Spec

\* There is no configuration file only before the first save, while one is being
\* replaced, or after a replacement that stopped halfway.
NeverGone ==
  disk["config"] = Missing =>
    \/ cut \/ kept = FactoryConfig
    \/ \E s \in Saves : pc[s] = "rename" /\ File(s) = "config"

\* NeverGone holds in every reachable state (io.go:105-114).
LEMMA NeverGoneInductive == Spec => []NeverGone
<1>1. Init => NeverGone
  BY DEF Init, NeverGone
<1>2. TypeInv /\ NeverGone /\ [Next]_vars => NeverGone'
  <2> SUFFICES ASSUME FlagTypes, FlowTypes, Places, NeverGone, [Next]_vars
               PROVE  NeverGone'
    BY DEF TypeInv
  <2>1. ASSUME disk'["config"] = disk["config"], UNCHANGED <<cut, kept>>,
               \A q \in Saves : pc[q] = "rename" =>
                 pc'[q] = "rename" /\ entered'[q] = entered[q] /\ step'[q] = step[q]
        PROVE  NeverGone'
    BY <2>1, ZenonT(60) DEF NeverGone, File, Plan
  <2>2. ASSUME NEW s \in FormSaves, ClickForm(s) PROVE NeverGone'
    BY <2>1, <2>2 DEF ClickForm, Click, Goto, FlowTypes, FlagTypes, Saves
  <2>3. ASSUME NEW s \in DialogSaves, ClickDialog(s) PROVE NeverGone'
    BY <2>1, <2>3 DEF ClickDialog, Click, Goto, FlowTypes, FlagTypes, Saves
  <2>4. ASSUME NEW s \in Saves,
               \/ Prepare(s) \/ PrepareFails(s) \/ NextFile(s) \/ CopyForm(s) \/ CopyPdf(s)
               \/ WriteTemp(s) \/ WriteTempFails(s) \/ RemoveFails(s)
               \/ FormSaved(s) \/ StartFails(s) \/ FormFails(s) \/ DialogEnds(s)
        PROVE  NeverGone'
    <3>1. UNCHANGED disk /\ pc[s] # "rename"
      BY <2>4 DEF Prepare, PrepareFails, NextFile, CopyForm, CopyPdf, WriteTemp,
         WriteTempFails, RemoveFails, FormSaved, StartFails, FormFails, DialogEnds,
         Report, Goto
    <3>2. /\ UNCHANGED <<step, entered, kept, cut>>
          /\ \A q \in Saves : q # s => pc'[q] = pc[q]
      BY <2>4, SaveGoesOn
    <3> QED
      BY <2>1, <3>1, <3>2
  <2>5. ASSUME NEW s \in Saves, RemoveOld(s) PROVE NeverGone'
    <3>1. /\ pc[s] = "remove" /\ pc' = [pc EXCEPT ![s] = "rename"]
          /\ disk' = [disk EXCEPT ![File(s)] = Missing]
          /\ UNCHANGED <<step, entered, kept, cut>>
      BY <2>5 DEF RemoveOld, Goto, guiVars, historyVars
    <3>2. CASE File(s) = "config"
      <4>1. pc'[s] = "rename" /\ File(s)' = "config"
        BY <3>1, <3>2 DEF FlowTypes, File, Plan
      <4> QED
        BY <4>1 DEF NeverGone
    <3>3. CASE File(s) # "config"
      <4>1. disk'["config"] = disk["config"]
        BY <3>1, <3>3 DEF FlowTypes, Files
      <4>2. \A q \in Saves : pc[q] = "rename" => pc'[q] = "rename"
        BY <3>1 DEF FlowTypes
      <4> QED
        BY <2>1, <3>1, <4>1, <4>2
    <3> QED
      BY <3>2, <3>3
  <2>6. ASSUME NEW s \in Saves, Rename(s), File(s) = "config" PROVE NeverGone'
    <3>1. disk'["config"] \in Config
      BY <2>6, FileFacts DEF Rename, FlowTypes, Files
    <3>2. disk'["config"] # Missing
      BY <3>1, SettingsAssumption DEF SettingsAssumption
    <3> QED
      BY <3>2 DEF NeverGone
  <2>7. ASSUME NEW s \in Saves, Rename(s) \/ RenameFails(s), File(s) # "config"
        PROVE  NeverGone'
    <3>1. disk'["config"] = disk["config"]
      BY <2>7 DEF Rename, RenameFails, FlowTypes, Files
    <3>2. /\ UNCHANGED <<kept, cut, entered>>
          /\ \A q \in Saves : q # s => pc'[q] = pc[q] /\ step'[q] = step[q]
      BY <2>7, AdvanceFacts DEF Rename, RenameFails, guiVars
    <3>3. \A q \in Saves : q # s => File(q)' = File(q)
      BY <3>2 DEF File, Plan
    <3> QED
      BY <2>7, <3>1, <3>2, <3>3 DEF NeverGone
  <2>8. ASSUME NEW s \in Saves, RenameFails(s), File(s) = "config" PROVE NeverGone'
    BY <2>8 DEF RenameFails, NeverGone
  <2>9. CASE Restart
    BY <2>9 DEF Restart, NeverGone
  <2>10. CASE UNCHANGED vars
    BY <2>1, <2>10 DEF vars, guiVars, historyVars
  <2> QED
    BY <2>2, <2>3, <2>4, <2>5, <2>6, <2>7, <2>8, <2>9, <2>10 DEF Next, SaveStep
<1> QED
  BY <1>1, <1>2, TypeInvInductive, PTL DEF Spec

\* Dialog settings that may be in the file: those the dialog last wrote there, or
\* those of a dialog save that failed, which stay in f.cfg.
Known(x) == x = kept.pdf \/ x \in {d \in DialogSaves : reported[d] = "failed"}

\* What a save of the form is about to write, or has written.
FormCopy(s) ==
  /\ copy[s].form = s /\ Known(copy[s].pdf)
  /\ pc[s] = "written" => kept.form = s

\* What the dialog has put into f.cfg, and is about to write or has written.
DialogCopy(s) ==
  /\ cfg.pdf = s
  /\ pc[s] = "copy pdf" => copy[s].form = cfg.form
  /\ (pc[s] \in {"temp", "remove", "rename"} /\ File(s) = "config") =>
       copy[s].form = cfg.form /\ copy[s].pdf = s
  /\ pc[s] = "written" => kept.pdf = s

\* f.cfg has the form settings of the file, until it is told of a form's save,
\* and dialog settings that may be there or are being saved.
CfgFollows ==
  /\ (\A s \in FormSaves : pc[s] # "written") => cfg.form = kept.form
  /\ Known(cfg.pdf) \/ (cfg.pdf \in DialogSaves /\ InProgress(cfg.pdf))

\* The file holds the settings that were last saved.
FileFollows ==
  disk["config"] # Missing =>
    disk["config"].form = kept.form /\ Known(disk["config"].pdf)

\* While saves never overlapped and every start succeeded, the file, f.cfg and
\* the copies of the saves in progress agree.
Agreement ==
  (~overlapped /\ ~behind) =>
    /\ FileFollows /\ CfgFollows
    /\ \A s \in FormSaves : InProgress(s) => FormCopy(s)
    /\ \A s \in DialogSaves : InProgress(s) => DialogCopy(s)

\* The two windows' saves differ.
LEMMA SavesDiffer == \A s \in FormSaves : s \notin DialogSaves
BY SettingsAssumption DEF SettingsAssumption

\* A step of the one save in progress that leaves the configurations alone, the
\* copy it is about to write included, and neither begins nor ends.
LEMMA SaveMovesOn ==
  ASSUME TypeInv, OneAtATime, Agreement, NEW s \in Saves, InProgress(s), pc[s] # "written",
         UNCHANGED <<cfg, kept, reported, copy, overlapped, behind>>,
         disk'["config"] = disk["config"] \/ disk'["config"] = Missing,
         \A q \in Saves : q # s => pc'[q] = pc[q],
         pc'[s] \notin {"idle", "over", "written", "copy pdf"},
         s \in DialogSaves /\ pc'[s] \in {"temp", "remove", "rename"} /\ File(s)' = "config" =>
           pc[s] \in {"temp", "remove", "rename"} /\ File(s) = "config"
  PROVE  Agreement'
<1> SUFFICES ASSUME ~overlapped, ~behind
             PROVE  /\ FileFollows' /\ CfgFollows'
                    /\ \A q \in FormSaves : InProgress(q)' => FormCopy(q)'
                    /\ \A q \in DialogSaves : InProgress(q)' => DialogCopy(q)'
  BY DEF Agreement
<1>k. \A x : Known(x)' <=> Known(x)
  BY DEF Known
<1>a. \A q \in Saves : InProgress(q)' <=> q = s
  BY DEF OneAtATime, InProgress
<1>b. \A q \in Saves : InProgress(q) <=> q = s
  BY DEF OneAtATime
<1>1. FileFollows'
  BY <1>k DEF FileFollows, Agreement
<1>2. CfgFollows'
  <2>1. (\A q \in FormSaves : pc'[q] # "written") => cfg'.form = kept'.form
    BY DEF Agreement, CfgFollows, Saves
  <2>2. Known(cfg.pdf) \/ (cfg.pdf \in DialogSaves /\ cfg.pdf = s)
    BY <1>b DEF Agreement, CfgFollows, Saves
  <2>3. PICK x : x = cfg.pdf
    OBVIOUS
  <2>4. Known(x)' \/ (x \in DialogSaves /\ InProgress(x)')
    BY <1>a, <1>k, <2>2, <2>3 DEF Saves
  <2>5. cfg'.pdf = x
    BY <2>3
  <2> QED
    BY <2>1, <2>4, <2>5 DEF CfgFollows
<1>3. ASSUME NEW q \in FormSaves, InProgress(q)' PROVE FormCopy(q)'
  <2>1. q = s /\ FormCopy(q)
    BY <1>3, <1>a, <1>b DEF Agreement, Saves
  <2> QED
    BY <1>k, <2>1 DEF FormCopy
<1>4. ASSUME NEW q \in DialogSaves, InProgress(q)' PROVE DialogCopy(q)'
  <2>1. q = s /\ DialogCopy(q)
    BY <1>4, <1>a, <1>b DEF Agreement, Saves
  <2> QED
    BY <2>1 DEF DialogCopy
<1> QED
  BY <1>1, <1>2, <1>3, <1>4

\* A step after which no save is in progress, or only that of s.
LEMMA AgreementOf ==
  ASSUME NEW s \in Saves, \A q \in Saves : InProgress(q)' => q = s,
         FileFollows', CfgFollows',
         InProgress(s)' => /\ s \in FormSaves => FormCopy(s)'
                           /\ s \in DialogSaves => DialogCopy(s)'
  PROVE  Agreement'
BY DEF Agreement, Saves

\* Agreement holds in every reachable state (main.go:639-647,
\* pdf_settings.go:268-300).
LEMMA AgreementInductive == Spec => []Agreement
<1>1. Init => Agreement
  <2> SUFFICES ASSUME Init PROVE Agreement
    OBVIOUS
  <2>1. disk["config"] \in {FactoryConfig, Missing} /\ cfg = kept /\ kept = FactoryConfig
        /\ \A s \in Saves : ~InProgress(s)
    BY DEF Init, InProgress
  <2> QED
    BY <2>1 DEF Agreement, FileFollows, CfgFollows, Known, Saves
<1>2. TypeInv /\ OneAtATime /\ Agreement /\ [Next]_vars => Agreement'
  <2> SUFFICES ASSUME TypeInv, OneAtATime, Agreement, [Next]_vars PROVE Agreement'
    OBVIOUS
  <2>t. FlagTypes /\ FlowTypes /\ Places
    BY DEF TypeInv
  <2>1. ASSUME NEW s \in FormSaves, ClickForm(s) PROVE Agreement'
    <3>1. /\ s \in Saves /\ s \notin DialogSaves
          /\ UNCHANGED <<disk, cfg, reported, kept, behind>>
          /\ pc' = [pc EXCEPT ![s] = "prepare"]
          /\ overlapped' = (overlapped \/ ~Quiet)
          /\ copy' = [copy EXCEPT ![s] = [cfg EXCEPT !.form = s]]
      BY <2>1, SavesDiffer DEF ClickForm, Click, Goto, Saves
    <3> SUFFICES ASSUME ~overlapped', ~behind' PROVE Agreement'
      BY DEF Agreement
    <3>2. ~overlapped /\ ~behind /\ Quiet
      BY <3>1
    <3>k. \A x : Known(x)' <=> Known(x)
      BY <3>1 DEF Known
    <3>3. \A q \in Saves : InProgress(q)' => q = s
      BY <2>t, <3>1, <3>2 DEF FlowTypes, Quiet, InProgress
    <3>4. FileFollows'
      BY <3>1, <3>2, <3>k DEF Agreement, FileFollows
    <3>5. Known(cfg.pdf) /\ cfg.form = kept.form
      BY <3>2 DEF Agreement, CfgFollows, Quiet, Saves, InProgress
    <3>6. CfgFollows'
      BY <3>1, <3>5 DEF CfgFollows, Known
    <3>7. copy'[s].form = s /\ copy'[s].pdf = cfg.pdf /\ pc'[s] = "prepare"
      BY <2>t, <3>1 DEF FlowTypes, Config
    <3>8. FormCopy(s)'
      BY <3>1, <3>5, <3>7 DEF FormCopy, Known
    <3> QED
      BY <3>1, <3>3, <3>4, <3>6, <3>8, AgreementOf
  <2>2. ASSUME NEW s \in DialogSaves, ClickDialog(s) PROVE Agreement'
    <3>1. /\ s \in Saves /\ s \notin FormSaves
          /\ UNCHANGED <<disk, copy, reported, kept, behind>>
          /\ pc' = [pc EXCEPT ![s] = "next"]
          /\ overlapped' = (overlapped \/ ~Quiet)
          /\ cfg' = [cfg EXCEPT !.pdf = s]
      BY <2>2, SavesDiffer DEF ClickDialog, Click, Goto, Saves
    <3> SUFFICES ASSUME ~overlapped', ~behind' PROVE Agreement'
      BY DEF Agreement
    <3>2. ~overlapped /\ ~behind /\ Quiet
      BY <3>1
    <3>k. \A x : Known(x)' <=> Known(x)
      BY <3>1 DEF Known
    <3>3. \A q \in Saves : InProgress(q)' => q = s
      BY <2>t, <3>1, <3>2 DEF FlowTypes, Quiet, InProgress
    <3>4. FileFollows'
      BY <3>1, <3>2, <3>k DEF Agreement, FileFollows
    <3>5. cfg.form = kept.form
      BY <3>2 DEF Agreement, CfgFollows, Quiet, Saves, InProgress
    <3>6. cfg'.form = cfg.form /\ cfg'.pdf = s /\ pc'[s] = "next"
      BY <2>t, <3>1 DEF FlowTypes, Config
    <3>7. InProgress(s)'
      BY <3>6 DEF InProgress
    <3>8. CfgFollows'
      BY <3>1, <3>5, <3>6, <3>7 DEF CfgFollows, InProgress
    <3>9. DialogCopy(s)'
      BY <3>6 DEF DialogCopy
    <3> QED
      BY <3>1, <3>3, <3>4, <3>8, <3>9, AgreementOf
  <2>3. ASSUME NEW s \in Saves,
               \/ Prepare(s) \/ PrepareFails(s) \/ NextFile(s)
               \/ WriteTemp(s) \/ WriteTempFails(s) \/ RemoveOld(s) \/ RemoveFails(s)
        PROVE  Agreement'
    <3>1. UNCHANGED <<cfg, kept, reported, copy, step, entered, overlapped, behind>>
      BY <2>3 DEF Prepare, PrepareFails, NextFile, WriteTemp, WriteTempFails, RemoveOld,
         RemoveFails, guiVars, historyVars
    <3>2. disk'["config"] = disk["config"] \/ disk'["config"] = Missing
      <4>1. CASE RemoveOld(s)
        BY <2>t, <4>1 DEF RemoveOld, FlowTypes, Files
      <4>2. CASE ~RemoveOld(s)
        BY <2>3, <4>2 DEF Prepare, PrepareFails, NextFile, WriteTemp, WriteTempFails,
           RemoveFails
      <4> QED
        BY <4>1, <4>2
    <3>3. File(s)' = File(s)
      BY <3>1 DEF File, Plan
    <3>4. PICK from, to \in Stages :
            /\ pc[s] = from /\ pc' = [pc EXCEPT ![s] = to]
            /\ from \notin {"idle", "over", "written"}
            /\ to \notin {"idle", "over", "written", "copy pdf"}
            /\ s \in DialogSaves /\ to \in {"temp", "remove", "rename"} /\ File(s) = "config" =>
                 from \in {"temp", "remove", "rename"}
      BY <2>3 DEF Prepare, PrepareFails, NextFile, WriteTemp, WriteTempFails, RemoveOld,
         RemoveFails, Goto, Stages
    <3>5. /\ InProgress(s) /\ pc[s] # "written"
          /\ \A q \in Saves : q # s => pc'[q] = pc[q]
          /\ pc'[s] = to /\ pc[s] = from
      BY <2>t, <3>4 DEF InProgress, FlowTypes
    <3> QED
      BY <3>1, <3>2, <3>3, <3>4, <3>5, SaveMovesOn
  <2>4. ASSUME NEW s \in Saves, Rename(s) \/ RenameFails(s),
               File(s) = "config" => RenameFails(s)
        PROVE  Agreement'
    <3>1. UNCHANGED <<cfg, kept, reported, copy, entered, overlapped, behind>>
      BY <2>4 DEF Rename, RenameFails, guiVars
    <3>2. disk'["config"] = disk["config"]
      BY <2>t, <2>4 DEF Rename, RenameFails, FlowTypes, Files
    <3>3. /\ pc[s] = "rename" /\ \A q \in Saves : q # s => pc'[q] = pc[q]
          /\ pc'[s] \in {"next", "error"}
      <4>1. CASE File(s) = "config"
        BY <2>t, <2>4, <4>1 DEF RenameFails, Goto, FlowTypes
      <4>2. CASE File(s) # "config"
        BY <2>t, <2>4, <4>2, AdvanceFacts DEF Rename, RenameFails
      <4> QED
        BY <4>1, <4>2
    <3> QED
      BY <3>1, <3>2, <3>3, SaveMovesOn DEF InProgress
  \* What holds of the one save that is in progress.
  <2>5. ASSUME NEW s \in Saves, InProgress(s), \A q \in Saves : q # s => pc'[q] = pc[q],
               ~overlapped, ~behind
        PROVE  /\ \A q \in Saves : InProgress(q)' => q = s
               /\ \A q \in Saves : InProgress(q) <=> q = s
               /\ FileFollows
               /\ s \in FormSaves => FormCopy(s) /\ Known(cfg.pdf)
               /\ s \in DialogSaves => DialogCopy(s) /\ cfg.form = kept.form
               /\ pc[s] # "written" => cfg.form = kept.form
    <3>1. \A q \in Saves : InProgress(q) <=> q = s
      BY <2>5 DEF OneAtATime
    <3>2. \A q \in Saves : InProgress(q)' => q = s
      BY <2>5, <3>1 DEF InProgress
    <3>3. \A q \in Saves : q # s => pc[q] # "written"
      BY <3>1 DEF InProgress
    <3>4. s \in FormSaves => FormCopy(s) /\ Known(cfg.pdf)
      BY <2>5, <3>1, SavesDiffer DEF Agreement, CfgFollows, Saves
    <3>5. s \in DialogSaves => DialogCopy(s) /\ cfg.form = kept.form
      BY <2>5, <3>3, SavesDiffer DEF Agreement, CfgFollows, Saves
    <3>6. pc[s] # "written" => cfg.form = kept.form
      BY <2>5, <3>3 DEF Agreement, CfgFollows, Saves
    <3> QED
      BY <2>5, <3>1, <3>2, <3>4, <3>5, <3>6 DEF Agreement
  <2>6. ASSUME NEW s \in Saves, CopyForm(s) \/ CopyPdf(s) PROVE Agreement'
    <3>1. /\ UNCHANGED <<disk, cfg, kept, reported, step, entered, overlapped, behind>>
          /\ s \in DialogSaves /\ s \notin FormSaves /\ InProgress(s)
          /\ \A q \in Saves : q # s => pc'[q] = pc[q]
      BY <2>t, <2>6, SaveGoesOn, SavesDiffer DEF CopyForm, CopyPdf, Goto, guiVars, historyVars,
         Places, InProgress
    <3> SUFFICES ASSUME ~overlapped, ~behind PROVE Agreement'
      BY <3>1 DEF Agreement
    <3>2. /\ \A q \in Saves : InProgress(q)' => q = s
          /\ FileFollows /\ DialogCopy(s) /\ cfg.form = kept.form
      BY <2>5, <3>1
    <3>3. \/ /\ pc'[s] = "copy pdf" /\ copy'[s].form = cfg.form
          \/ /\ pc[s] = "copy pdf" /\ pc'[s] = "temp"
             /\ copy'[s].form = copy[s].form /\ copy'[s].pdf = cfg.pdf
      <4>1. copy[s] \in Config /\ copy \in [Saves -> Config] /\ pc \in [Saves -> Stages]
        BY <2>t DEF FlowTypes
      <4>2. CASE CopyForm(s)
        <5>1. pc'[s] = "copy pdf"
          BY <4>1, <4>2 DEF CopyForm, Goto
        <5>2. copy'[s] = [copy[s] EXCEPT !.form = cfg.form]
          BY <4>1, <4>2 DEF CopyForm
        <5> QED
          BY <4>1, <5>1, <5>2 DEF Config
      <4>3. CASE CopyPdf(s)
        <5>1. pc[s] = "copy pdf" /\ pc'[s] = "temp"
          BY <4>1, <4>3 DEF CopyPdf, Goto
        <5>2. copy'[s] = [copy[s] EXCEPT !.pdf = cfg.pdf]
          BY <4>1, <4>3 DEF CopyPdf
        <5> QED
          BY <4>1, <5>1, <5>2 DEF Config
      <4> QED
        BY <2>6, <4>2, <4>3
    <3>4. FileFollows'
      BY <3>1, <3>2 DEF FileFollows, Known
    <3>5. DialogCopy(s)'
      BY <3>1, <3>2, <3>3 DEF DialogCopy
    <3>6. InProgress(s)'
      BY <3>3 DEF InProgress
    <3>7. CfgFollows'
      BY <3>1, <3>2, <3>6 DEF CfgFollows, DialogCopy, InProgress
    <3> QED
      BY <3>1, <3>2, <3>4, <3>5, <3>7, AgreementOf
  <2>7. ASSUME NEW s \in Saves, Rename(s), File(s) = "config" PROVE Agreement'
    <3>1. /\ UNCHANGED <<cfg, reported, copy, overlapped, behind>>
          /\ pc[s] = "rename" /\ pc'[s] = "written" /\ InProgress(s)
          /\ \A q \in Saves : q # s => pc'[q] = pc[q]
      BY <2>t, <2>7, AdvanceFacts DEF Rename, guiVars, InProgress
    <3>2. disk'["config"] = copy[s]
      BY <2>t, <2>7, FileFacts DEF Rename, FlowTypes, Files
    <3>3. /\ s \in FormSaves => kept'.form = s /\ kept'.pdf = kept.pdf
          /\ s \notin FormSaves => kept'.form = kept.form /\ kept'.pdf = s
      BY <2>t, <2>7 DEF Rename, FlowTypes, Config
    <3> SUFFICES ASSUME ~overlapped, ~behind PROVE Agreement'
      BY <3>1 DEF Agreement
    <3>4. /\ \A q \in Saves : InProgress(q)' => q = s
          /\ s \in FormSaves => FormCopy(s) /\ Known(cfg.pdf)
          /\ s \in DialogSaves => DialogCopy(s)
          /\ cfg.form = kept.form
      BY <2>5, <3>1
    <3>5. CASE s \in FormSaves
      <4>k. \A x : Known(x)' <=> Known(x)
        BY <3>1, <3>3, <3>5 DEF Known
      <4>1. FileFollows'
        <5>1. PICK x : x = copy[s].pdf
          OBVIOUS
        <5>2. Known(x)' /\ copy[s].form = s
          BY <3>4, <3>5, <4>k, <5>1 DEF FormCopy
        <5>3. disk'["config"].form = kept'.form /\ disk'["config"].pdf = x
          BY <3>2, <3>3, <3>5, <5>1, <5>2
        <5> QED
          BY <5>2, <5>3 DEF FileFollows, Known
      <4>2. CfgFollows'
        BY <3>1, <3>3, <3>4, <3>5 DEF CfgFollows, Known
      <4>3. FormCopy(s)'
        BY <3>1, <3>3, <3>4, <3>5 DEF FormCopy, Known
      <4> QED
        BY <3>4, <3>5, <4>1, <4>2, <4>3, SavesDiffer, AgreementOf
    <3>6. CASE s \notin FormSaves
      <4>1. s \in DialogSaves /\ copy[s].form = cfg.form /\ copy[s].pdf = s /\ cfg.pdf = s
        BY <2>7, <3>1, <3>4, <3>6 DEF DialogCopy, Saves
      <4>2. FileFollows'
        BY <3>2, <3>3, <3>4, <3>6, <4>1 DEF FileFollows, Known
      <4>3. CfgFollows'
        BY <3>1, <3>3, <3>4, <3>6, <4>1 DEF CfgFollows, Known
      <4>4. DialogCopy(s)'
        BY <3>1, <3>3, <3>6, <4>1 DEF DialogCopy
      <4> QED
        BY <3>4, <3>6, <4>2, <4>3, <4>4, AgreementOf
    <3> QED
      BY <3>5, <3>6
  <2>8. ASSUME NEW s \in Saves, FormSaved(s) \/ StartFails(s) \/ FormFails(s) \/ DialogEnds(s)
        PROVE  Agreement'
    <3>1. /\ UNCHANGED <<disk, kept, copy, overlapped>> /\ InProgress(s)
          /\ \A q \in Saves : q # s => pc'[q] = pc[q] /\ reported'[q] = reported[q]
          /\ pc'[s] = "over" /\ pc[s] # "over"
      BY <2>t, <2>8, SaveGoesOn DEF FormSaved, StartFails, FormFails, DialogEnds, Report, Goto,
         historyVars, FlowTypes, InProgress
    <3>r. reported[s] # "failed"
      BY <2>t, <3>1 DEF Places
    <3>k. \A x : Known(x) => Known(x)'
      BY <3>1, <3>r DEF Known, Saves
    <3> SUFFICES ASSUME ~overlapped', ~behind' PROVE Agreement'
      BY DEF Agreement
    <3>2. ~overlapped /\ ~behind /\ ~StartFails(s)
      BY <2>8, <3>1 DEF FormSaved, StartFails, FormFails, DialogEnds, historyVars
    <3>3. /\ \A q \in Saves : InProgress(q)' => q = s
          /\ FileFollows
          /\ s \in FormSaves => FormCopy(s) /\ Known(cfg.pdf)
          /\ s \in DialogSaves => DialogCopy(s) /\ cfg.form = kept.form
          /\ pc[s] # "written" => cfg.form = kept.form
      BY <2>5, <3>1, <3>2
    <3>4. ~InProgress(s)'
      BY <3>1 DEF InProgress
    <3>5. FileFollows'
      <4>1. PICK x : x = disk["config"].pdf
        OBVIOUS
      <4>2. disk["config"] # Missing => disk["config"].form = kept.form /\ Known(x)
        BY <3>3, <4>1 DEF FileFollows
      <4> QED
        BY <3>1, <3>k, <4>1, <4>2 DEF FileFollows, Known
    <3>6. CASE FormSaved(s)
      <4>1. s \in FormSaves /\ cfg' = copy[s] /\ pc[s] = "written"
        BY <3>6 DEF FormSaved, Report, Goto
      <4>2. PICK x : x = copy[s].pdf
        OBVIOUS
      <4>3. cfg'.form = kept'.form /\ cfg'.pdf = x /\ Known(x)'
        BY <3>1, <3>3, <3>k, <4>1, <4>2 DEF FormCopy
      <4>4. CfgFollows'
        BY <4>3 DEF CfgFollows, Known
      <4> QED
        BY <3>3, <3>4, <3>5, <4>4, AgreementOf
    <3>7. CASE FormFails(s)
      <4>1. s \in FormSaves /\ cfg' = cfg /\ pc[s] = "error"
        BY <3>7 DEF FormFails, Report, Goto
      <4>2. PICK x : x = cfg.pdf
        OBVIOUS
      <4>3. cfg'.form = kept'.form /\ cfg'.pdf = x /\ Known(x)'
        BY <3>1, <3>3, <3>k, <4>1, <4>2
      <4>4. CfgFollows'
        BY <4>3 DEF CfgFollows, Known
      <4> QED
        BY <3>3, <3>4, <3>5, <4>4, AgreementOf
    <3>8. CASE DialogEnds(s)
      <4>1. s \in DialogSaves /\ cfg' = cfg
            /\ \/ pc[s] = "written"
               \/ reported' = [reported EXCEPT ![s] = "failed"]
        BY <3>8 DEF DialogEnds, Report, Goto
      <4>2. cfg'.form = kept'.form /\ cfg'.pdf = s
        BY <3>1, <3>3, <4>1 DEF DialogCopy
      <4>3. pc[s] = "written" => kept'.pdf = s
        BY <3>1, <3>3, <4>1 DEF DialogCopy
      <4>4. Known(s)'
        BY <2>t, <4>1, <4>3 DEF Known, FlowTypes
      <4>5. CfgFollows'
        BY <4>2, <4>4 DEF CfgFollows, Known
      <4> QED
        BY <3>3, <3>4, <3>5, <4>5, AgreementOf
    <3> QED
      BY <2>8, <3>2, <3>6, <3>7, <3>8
  <2>9. CASE Restart
    <3>1. /\ UNCHANGED <<disk, reported, overlapped, behind>>
          /\ \A q \in Saves : ~InProgress(q)'
          /\ cfg' = IF disk["config"] = Missing THEN FactoryConfig ELSE disk["config"]
          /\ kept' = IF disk["config"] = Missing THEN FactoryConfig ELSE kept
      BY <2>9 DEF Restart, InProgress
    <3> SUFFICES ASSUME ~overlapped, ~behind PROVE Agreement'
      BY <3>1 DEF Agreement
    <3>2. FileFollows' /\ CfgFollows'
      <4>1. CASE disk["config"] = Missing
        BY <3>1, <4>1 DEF FileFollows, CfgFollows, Known
      <4>2. CASE disk["config"] # Missing
        BY <3>1, <4>2 DEF Agreement, FileFollows, CfgFollows, Known
      <4> QED
        BY <4>1, <4>2
    <3> QED
      BY <3>1, <3>2 DEF Agreement, Saves
  <2>10. CASE UNCHANGED vars
    BY <2>10 DEF vars, guiVars, historyVars, Agreement, FileFollows, CfgFollows, Known, FormCopy,
       DialogCopy, InProgress, File, Plan
  <2> QED
    BY <2>1, <2>2, <2>3, <2>4, <2>6, <2>7, <2>8, <2>9, <2>10 DEF Next, SaveStep
<1> QED
  BY <1>1, <1>2, TypeInvInductive, OneAtATimeInductive, PTL DEF Spec

\* When nothing is being saved, the file holds the settings that were last saved
\* from either window: neither writer puts back settings of the other, unless
\* saves overlapped or a start failed (main.go:639-647, pdf_settings.go:268-300,
\* io.go:105-114).
THEOREM SettingsAreKept == Spec => []SettingsKept
<1>1. NeverGone /\ Agreement => SettingsKept
  <2> SUFFICES ASSUME NeverGone, Agreement, Quiet, ~overlapped, ~behind
               PROVE  IF disk["config"] = Missing
                      THEN cut \/ kept = FactoryConfig
                      ELSE /\ disk["config"].form = kept.form
                           /\ \/ disk["config"].pdf = kept.pdf
                              \/ disk["config"].pdf \in
                                   {d \in DialogSaves : reported[d] = "failed"}
    BY DEF SettingsKept
  <2>1. \A s \in Saves : pc[s] # "rename"
    BY DEF Quiet, InProgress
  <2> QED
    BY <2>1 DEF NeverGone, Agreement, FileFollows, Known
<1> QED
  BY <1>1, NeverGoneInductive, AgreementInductive, PTL
=============================================================================
