------------------------------- MODULE UserFiles -------------------------------
(***************************************************************************)
(* The two files of the user that all processes share: auth.json with the  *)
(* keys of the providers (core/credentials.py) and settings.json           *)
(* (core/settings.py), with the catalog of models (core/providers.py).     *)
(*                                                                         *)
(* A process works on a copy that it reads when it starts.  Whoever saves  *)
(* writes the whole file from its copy, through a temporary file and a     *)
(* rename: readers see one version or the other.  Entries are providers,   *)
(* with their keys, and fields, with their values; an entry not in the     *)
(* file has the value a reader puts there, and so have all the entries of  *)
(* a file that is missing or cannot be read (which load sets aside first). *)
(***************************************************************************)
EXTENDS Integers

CONSTANTS
  Proc,          \* processes of one user
  Provider,      \* built-in providers
  Home,          \* the one that is used when nothing names another
  Model,         \* their models
  Name,          \* what may be written for a model: ids, old ids, prefixes
  Retired,       \* ids that Home has given up
  Alias,         \* the model each of them stands for now
  MadeBy,        \* the provider of a name
  EnvKey,        \* providers with a key in the environment
  Stored,        \* bound: sets of providers with keys of earlier logins
  FirstOf, DefaultOf, \* of a provider: its first model, the one login picks
  Begins,        \* names that begin the id of a model
  Stranger,      \* a provider's name that is not built in
  Text,          \* what may be typed into a dialog
  Blank,         \* texts with nothing but spaces
  MaxDelay,      \* bound: the delays between retries
  Given,         \* what /settings is given for each field
  MaxSaves,      \* bound: attempts to save a file
  Null

Nothing == ""

ASSUME FilesAssumption ==
  /\ Home \in Provider /\ EnvKey \subseteq Provider /\ Stored \subseteq SUBSET Provider
  /\ Stranger \notin Provider /\ Null \notin Provider \cup Name
  /\ Model \subseteq Name /\ Retired \subseteq Name \ Model
  /\ MadeBy \in [Name -> Provider]
  /\ Alias \in [Retired -> {m \in Model : MadeBy[m] = Home}]
  /\ \A q \in Provider : {FirstOf[q], DefaultOf[q]} \subseteq {m \in Model : MadeBy[m] = q}
  /\ Begins \subseteq Name \X Model
  /\ Nothing \in Blank /\ Blank \subseteq Text
  /\ MaxDelay \in Nat \ {0} /\ MaxSaves \in Nat

VARIABLES
  disk,     \* what a reader of the files would find in each entry
  copy,     \* what each process has in memory
  behind,   \* history: entries another process has written since
  unsaved,  \* history: entries changed in memory whose save did not succeed
  saves     \* attempts so far

files == <<disk, copy, behind, unsaved, saves>>

-----------------------------------------------------------------------------
(* Models *)

\* normalize_model_id
Normalized(q, n) == IF q = Home /\ n \in Retired THEN Alias[n] ELSE n

ModelsOf(q) == {m \in Model : MadeBy[m] = q}

\* _resolve_model: an id, else the beginning of one, else the first model
Resolved(q, n) ==
  LET id == Normalized(q, n)
      exact == ModelsOf(q) \cap {id}
  IN  IF n = Null THEN {FirstOf[q]}
      ELSE IF exact # {} THEN exact
      ELSE {m \in ModelsOf(q) : <<id, m>> \in Begins}

-----------------------------------------------------------------------------
(* The entries *)

\* A key carries the provider whose dialog it was typed into
KeyFor(q, t) == [for |-> q, text |-> t]
NoKey == KeyFor(Null, Nothing)

Delays == 0 .. MaxDelay
Modes == {"ask", "auto", "full_access"}
Fields == {"default_provider", "default_model", "retry_initial_delay",
           "retry_max_delay", "tui_permission_mode"}
Default == [default_provider |-> Null, default_model |-> Null,
            retry_initial_delay |-> 0, retry_max_delay |-> MaxDelay,
            tui_permission_mode |-> "ask"]

Entry == Provider \cup Fields

\* SettingsManager._validate migrates the model and refuses what does not fit
Migrated(s) ==
  LET q == IF s["default_provider"] = Null THEN Home ELSE s["default_provider"]
  IN  [s EXCEPT !["default_model"] = Normalized(q, @)]
Valid(s) ==
  /\ s["default_provider"] \in Provider \cup {Stranger, Null}
  /\ s["default_model"] \in Name \cup {Null}
  /\ s["tui_permission_mode"] \in Modes
  /\ {s["retry_initial_delay"], s["retry_max_delay"]} \subseteq Delays
  /\ s["retry_initial_delay"] <= s["retry_max_delay"]

\* A process that does not run has no copy
NoCopy == [e \in Entry |-> IF e \in Provider THEN NoKey ELSE Default[e]]

InitFiles ==
  /\ \E stored \in Stored, t \in Text \ Blank : \* keys of earlier logins
       disk = [e \in Entry |-> IF e \in stored THEN KeyFor(e, t) ELSE NoCopy[e]]
  /\ copy = [p \in Proc |-> NoCopy]
  /\ behind = [p \in Proc |-> {}] /\ unsaved = [p \in Proc |-> {}]
  /\ saves = 0

-----------------------------------------------------------------------------
(* CredentialStore and SettingsManager *)

\* Mutant: settings are changed and saved without having been loaded
LoadKeys(p) ==
  /\ copy' = [copy EXCEPT ![p] = [e \in Entry |-> IF e \in Provider THEN disk[e] ELSE NoCopy[e]]]
  /\ behind' = [behind EXCEPT ![p] = {}] /\ unsaved' = [unsaved EXCEPT ![p] = {}]
  /\ UNCHANGED <<disk, saves>>

\* load, of both files: what a process that starts reads
LoadFiles(p) ==
  /\ copy' = [copy EXCEPT ![p] = disk]
  /\ behind' = [behind EXCEPT ![p] = {}] /\ unsaved' = [unsaved EXCEPT ![p] = {}]
  /\ UNCHANGED <<disk, saves>>

ForgetFiles(p) ==
  /\ copy' = [copy EXCEPT ![p] = NoCopy]
  /\ behind' = [behind EXCEPT ![p] = {}] /\ unsaved' = [unsaved EXCEPT ![p] = {}]
  /\ UNCHANGED <<disk, saves>>

Attempt == saves < MaxSaves /\ saves' = saves + 1

\* save: the file, a set of entries, becomes what p now has in memory
Save(p, file, memory) ==
  /\ Attempt
  /\ copy' = [copy EXCEPT ![p] = memory]
  /\ disk' = [e \in Entry |-> IF e \in file THEN memory[e] ELSE disk[e]]
  /\ behind' = [x \in Proc |->
                  IF x = p THEN behind[x] \ file
                  ELSE behind[x] \cup {e \in file : memory[e] # disk[e]}]
  /\ unsaved' = [unsaved EXCEPT ![p] = @ \ file]

\* The same when save raises: what was changed in memory stays changed
SaveFails(p, changed, memory) ==
  /\ Attempt
  /\ copy' = [copy EXCEPT ![p] = memory]
  /\ unsaved' = [unsaved EXCEPT ![p] = @ \cup changed]
  /\ UNCHANGED <<disk, behind>>

\* Mutant: the key is saved for the provider of the session
SavesForTheSession(p, q, t, session, ok) ==
  LET memory == [copy[p] EXCEPT ![session] = KeyFor(q, t)]
  IN  IF ok THEN Save(p, Provider, memory) ELSE SaveFails(p, {session}, memory)

\* _save_key_for; session is the provider of the model in use
SaveKeyFor(p, q, t, session, ok) ==
  LET memory == [copy[p] EXCEPT ![q] = KeyFor(q, t)]
  IN  IF ok THEN Save(p, Provider, memory) ELSE SaveFails(p, {q}, memory)

\* _remove_key_for; a save that fails is only reported
RemoveKeyFor(p, q, ok) ==
  LET memory == [copy[p] EXCEPT ![q] = NoKey]
  IN  IF copy[p][q] = NoKey THEN UNCHANGED files
      ELSE IF ok THEN Save(p, Provider, memory)
      ELSE SaveFails(p, {q}, memory)

\* set_value: the field is set before the whole is validated and saved
SetValue(p, f, v, ok) ==
  LET memory == Migrated([copy[p] EXCEPT ![f] = v])
  IN  IF Valid(memory) /\ ok THEN Save(p, Fields, memory)
      ELSE SaveFails(p, {e \in Fields : memory[e] # copy[p][e]}, memory)

\* set_permission_mode: read again, changed and saved; the copy is what was
\* read if that fails
SetPermission(p, v, ok) ==
  LET read == [e \in Entry |-> IF e \in Fields THEN disk[e] ELSE copy[p][e]]
  IN  IF ok THEN Save(p, Fields, Migrated([read EXCEPT !["tui_permission_mode"] = v]))
      ELSE /\ Attempt /\ UNCHANGED disk
           /\ copy' = [copy EXCEPT ![p] = read]
           /\ behind' = [behind EXCEPT ![p] = @ \ Fields]
           /\ unsaved' = [unsaved EXCEPT ![p] = @ \ Fields]

-----------------------------------------------------------------------------
(* Keys for requests *)

Pinned == KeyFor(Null, "--api-key")
Environment(q) == KeyFor(q, "environment")

\* provider_is_configured, from the copy
Configured(p, q) == copy[p][q] # NoKey \/ q \in EnvKey

\* _resolve_api_key_for, from the file: what a request to a provider gets
ApiKeyFor(q, pinned) ==
  CASE pinned -> Pinned
    [] ~pinned /\ disk[q] # NoKey -> disk[q]
    [] ~pinned /\ disk[q] = NoKey /\ q \in EnvKey -> Environment(q)
    [] OTHER -> NoKey
===============================================================================
