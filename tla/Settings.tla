------------------------------ MODULE Settings ------------------------------
(***************************************************************************)
(* settings.c: the settings in force, what flash holds of them, and the    *)
(* tasks that change and save them field by field, without a lock. One     *)
(* field stands for each sort: text, secret, 16 bits, 8 bits.              *)
(***************************************************************************)
EXTENDS Integers, Sequences, FiniteSets

CONSTANTS
  Built,           \* the values secrets.h gives, by field
  Typed,           \* what a browser may send for a field
  Spoken,          \* volumes a spoken command may ask for
  MaxEdits, MaxCuts, MaxFlashFaults        \* bounds

ASSUME SettingsAssumption == MaxEdits \in Nat /\ MaxCuts \in Nat /\ MaxFlashFaults \in Nat

FieldOrder == <<"wifi_ssid", "oc_token", "oc_port", "volume">>
Fields == {FieldOrder[i] : i \in 1..Len(FieldOrder)}
Texts == {"wifi_ssid", "oc_token"}
Secrets == {"oc_token"}
Mask == "****"
Widest == [f \in Fields \ Texts |-> IF f = "oc_port" THEN 65535 ELSE 255]
InWidth(f, v) == f \in Texts \/ v \in 0..Widest[f]
Bare == [f \in Fields |-> CASE f \in Texts -> "" [] f = "oc_port" -> 18789 [] OTHER -> 100]
Zero == [f \in Fields |-> IF f \in Texts THEN "" ELSE 0]
Unset == <<>>                       \* a key flash does not hold

\* secrets.h gives a secret itself, never its mask.
ASSUME BuiltAssumption == \A f \in Secrets \cap DOMAIN Built : Built[f] # Mask
\* Numbers are numbers, and those of the build have the field's width.
ASSUME NumbersAssumption ==
  /\ Spoken \subseteq Int /\ \A f \in Fields \ Texts : Typed[f] \subseteq Int
  /\ \A f \in Fields \cap DOMAIN Built : InWidth(f, Built[f])

Editors == {"web", "main"}
NotSaving == [phase |-> "rest", fields |-> <<>>, new |-> Zero, read |-> Unset]

VARIABLES
  inForce,         \* s_settings
  nvs,          \* what NVS holds: <<value>> or Unset
  page,            \* the JSON a browser was given: <<>> or <<its fields>>
  editing,         \* where each task is in its change and its save
  mayHold,         \* history: values a field was given since the last undisturbed save
  disturbed,       \* history: two tasks at it at once, or a refusal of the flash
  edits, cuts, flashFaults

settingsVars == <<inForce, nvs, page, editing, mayHold, disturbed, edits, cuts, flashFaults>>

\* apply_bare_defaults, then what the build gives, then what flash holds.
WithBuilt == [f \in Fields |-> IF f \in DOMAIN Built THEN Built[f] ELSE Bare[f]]
\* Mutant: the build's values are laid over the stored ones.
LoadedUnderBuilt(s) ==
  [f \in Fields |-> IF s[f] # Unset /\ f \notin DOMAIN Built THEN s[f][1] ELSE WithBuilt[f]]

Loaded(s) == [f \in Fields |-> IF s[f] = Unset THEN WithBuilt[f] ELSE s[f][1]]

SettingsInit ==
  /\ nvs = [f \in Fields |-> Unset] /\ inForce = Loaded(nvs) /\ page = <<>>
  /\ editing = [e \in Editors |-> NotSaving]
  /\ mayHold = [f \in Fields |-> {inForce[f]}]
  /\ disturbed = FALSE /\ edits = 0 /\ cuts = 0 /\ flashFaults = 0

AtRest(e) == editing[e].phase = "rest"
BeginEdit(e, new) ==
  /\ edits < MaxEdits /\ edits' = edits + 1 /\ AtRest(e)
  /\ editing' = [editing EXCEPT ![e] =
       [phase |-> "edit", fields |-> FieldOrder, new |-> new, read |-> Unset]]
  /\ disturbed' = (disturbed \/ \E o \in Editors \ {e} : ~AtRest(o))
Gives(f, v) ==
  inForce' = [inForce EXCEPT ![f] = v] /\ mayHold' = [mayHold EXCEPT ![f] = @ \cup {v}]

-----------------------------------------------------------------------------
\* settings_to_json(false).
Export ==
  /\ page' = <<[f \in Fields |-> IF f \in Secrets THEN Mask ELSE inForce[f]]>>
  /\ UNCHANGED <<inForce, nvs, editing, mayHold, disturbed, edits, cuts, flashFaults>>
\* A browser sends the page it was given, as it was or with a field typed over.
PutSettings ==
  /\ page # <<>>
  /\ \/ BeginEdit("web", page[1])
     \/ \E f \in Fields : \E v \in Typed[f] : BeginEdit("web", [page[1] EXCEPT ![f] = v])
  /\ UNCHANGED <<inForce, nvs, page, mayHold, cuts, flashFaults>>
\* A spoken command changes the volume alone (parse_device_commands).
SpeakVolume(v) ==
  /\ edits < MaxEdits /\ edits' = edits + 1 /\ AtRest("main")
  /\ editing' = [editing EXCEPT !["main"] =
       [phase |-> "edit", fields |-> <<"volume">>,
        new |-> [inForce EXCEPT !["volume"] = IF v < 0 THEN 0 ELSE IF v > 100 THEN 100 ELSE v],
        read |-> Unset]]
  /\ disturbed' = (disturbed \/ ~AtRest("web"))
  /\ UNCHANGED <<inForce, nvs, page, mayHold, cuts, flashFaults>>
\* settings_reset clears everything at once and then sets the bare defaults.
ResetSettings ==
  /\ BeginEdit("web", Bare)
  /\ inForce' = Zero /\ mayHold' = [f \in Fields |-> mayHold[f] \cup {Zero[f]}]
  /\ UNCHANGED <<nvs, page, cuts, flashFaults>>

\* A number that does not fit is converted as the build likes.
Converted(f, v) ==
  IF InWidth(f, v) THEN {v} ELSE {v % (Widest[f] + 1), IF v < 0 THEN 0 ELSE Widest[f]}
\* Mutant: the mask is taken for the secret.
TakesAny(f, v) == TRUE

Takes(f, v) == f \in Texts => v # Mask

\* settings_from_json, one field; after the last one the save begins.
EditField(e) ==
  /\ editing[e].phase = "edit"
  /\ LET f == Head(editing[e].fields)
         v == editing[e].new[f]
         left == Tail(editing[e].fields)
     IN  /\ IF Takes(f, v) THEN \E c \in Converted(f, v) : Gives(f, c)
            ELSE UNCHANGED <<inForce, mayHold>>
         /\ editing' = [editing EXCEPT ![e].phase = IF left = <<>> THEN "save" ELSE "edit",
                                       ![e].fields = IF left = <<>> THEN FieldOrder ELSE left]
  /\ UNCHANGED <<nvs, page, disturbed, edits, cuts, flashFaults>>

\* save_to_nvs: a field is read, then written to its key; the last write ends the save.
ReadField(e) ==
  /\ editing[e].phase = "save" /\ editing[e].read = Unset
  /\ editing' = [editing EXCEPT ![e].read = <<inForce[Head(editing[e].fields)]>>]
  /\ UNCHANGED <<inForce, nvs, page, mayHold, disturbed, edits, cuts, flashFaults>>
AfterWrite(e, ok) ==
  LET left == Tail(editing[e].fields)
      done == left = <<>> /\ \A o \in Editors \ {e} : AtRest(o)
  IN  /\ editing' = [editing EXCEPT ![e] =
           IF left = <<>> THEN NotSaving ELSE [@ EXCEPT !.fields = left, !.read = Unset]]
      /\ mayHold' = IF done /\ ok /\ ~disturbed THEN [f \in Fields |-> {inForce[f]}] ELSE mayHold
WriteField(e) ==
  /\ editing[e].phase = "save" /\ editing[e].read # Unset
  /\ nvs' = [nvs EXCEPT ![Head(editing[e].fields)] = editing[e].read]
  /\ AfterWrite(e, TRUE)
  /\ UNCHANGED <<inForce, page, disturbed, edits, cuts, flashFaults>>
\* nvs_set refuses: nobody looks.
WriteFails(e) ==
  /\ editing[e].phase = "save" /\ editing[e].read # Unset
  /\ flashFaults < MaxFlashFaults /\ flashFaults' = flashFaults + 1 /\ disturbed' = TRUE
  /\ AfterWrite(e, FALSE)
  /\ UNCHANGED <<inForce, nvs, page, edits, cuts>>
\* nvs_open fails: nothing is saved.
OpenFails(e) ==
  /\ editing[e].phase = "save" /\ editing[e].fields = FieldOrder /\ editing[e].read = Unset
  /\ flashFaults < MaxFlashFaults /\ flashFaults' = flashFaults + 1 /\ disturbed' = TRUE
  /\ editing' = [editing EXCEPT ![e] = NotSaving]
  /\ UNCHANGED <<inForce, nvs, page, mayHold, edits, cuts>>

\* The power is cut or the device restarts, at any point; settings_init. A partition it
\* cannot use is erased.
Reboot(erased) ==
  /\ cuts < MaxCuts /\ cuts' = cuts + 1
  /\ erased => flashFaults < MaxFlashFaults
  /\ flashFaults' = IF erased THEN flashFaults + 1 ELSE flashFaults
  /\ disturbed' = (disturbed \/ erased)
  /\ nvs' = IF erased THEN [f \in Fields |-> Unset] ELSE nvs
  /\ inForce' = Loaded(nvs') /\ editing' = [e \in Editors |-> NotSaving]
  /\ UNCHANGED <<page, mayHold, edits>>

SettingsNext ==
  \/ Export \/ PutSettings \/ ResetSettings \/ \E v \in Spoken : SpeakVolume(v)
  \/ \E e \in Editors : EditField(e) \/ ReadField(e) \/ WriteField(e) \/ WriteFails(e)
                          \/ OpenFails(e)
  \/ \E erased \in BOOLEAN : Reboot(erased)
SettingsSpec == SettingsInit /\ [][SettingsNext]_settingsVars

-----------------------------------------------------------------------------
SettingsTypeOK ==
  /\ \A f \in Fields : InWidth(f, inForce[f])
  /\ \A f \in Fields : nvs[f] = Unset \/ nvs[f][1] \in mayHold[f] \/ cuts > 0 \/ disturbed
  /\ \A e \in Editors : editing[e].phase \in {"rest", "edit", "save"}
  /\ edits \in 0..MaxEdits /\ cuts \in 0..MaxCuts /\ flashFaults \in 0..MaxFlashFaults

\* settings.c:160, :289, :114: as long as no two tasks were at the settings at once and the
\* flash took what it was given, a restart, in the middle of a save too, leaves every
\* field with a value it was given since the last whole save, never with a default in
\* its place; at rest flash holds what is in force. A secret never becomes its mask.
SettingsSurvive ==
  /\ \A f \in Secrets : inForce[f] # Mask
  /\ ~disturbed =>
       /\ \A f \in Fields : inForce[f] \in mayHold[f]
       /\ (\A e \in Editors : AtRest(e)) =>
            \A f \in Fields : nvs[f] \in {Unset, <<inForce[f]>>}
=============================================================================
