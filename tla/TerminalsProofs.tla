---------------------------- MODULE TerminalsProofs ----------------------------
(***************************************************************************)
(* Proofs about Terminals: keys stay with their providers, settings.json   *)
(* can be loaded, the highlighted row of every list is drawn, and a save   *)
(* changes one entry, for any number of terminals, providers and models.   *)
(*                                                                         *)
(* The inductive invariant has two halves.  FilesInv says what the file    *)
(* and the copies hold, and that a copy differs from the file only where   *)
(* the histories behind and unsaved say so.  ScreensInv says what the      *)
(* dialogs hold and that the window of every list is where it should be.   *)
(***************************************************************************)
EXTENDS Terminals, TLAPS

-----------------------------------------------------------------------------
(* The inductive invariant *)

\* What an entry may hold
Value ==
  {KeyFor(q, t) : q \in Provider, t \in Text} \cup {NoKey}
    \cup Name \cup Provider \cup {Null, Stranger} \cup Delays \cup Modes
    \cup UNION {Given[f] : f \in Fields}

\* The keys of m carry the providers under which they are kept
Tagged(m) == \A q \in Provider : m[q] # NoKey => m[q].for = q

\* m names no model id that its provider has given up
Current(m) ==
  m["default_model"] =
    Normalized(IF m["default_provider"] = Null THEN Home ELSE m["default_provider"],
               m["default_model"])

FilesTyped ==
  /\ disk \in [Entry -> Value]
  /\ copy \in [Proc -> [Entry -> Value]]
  /\ behind \in [Proc -> SUBSET Entry]
  /\ unsaved \in [Proc -> SUBSET Entry]
  /\ saves \in Nat

\* What p has in memory is the file, but for what the histories name
InStep(p) ==
  \A e \in Entry : e \notin behind[p] \cup unsaved[p] => copy[p][e] = disk[e]

FilesInv ==
  /\ FilesTyped
  /\ Tagged(disk) /\ Current(disk) /\ Valid(disk)
  /\ \A p \in Proc : Tagged(copy[p]) /\ Current(copy[p])
  /\ \A p \in Proc : Runs(p) => InStep(p)

Lists == [items : Seq(Rows), at : Nat, top : Nat, max : {MaxRows}]
Dialogs ==
  [kind : Selectors \cup {"none", "key"}, offers : SUBSET Rows,
   first : Rows \cup {Null}, text : Text, list : Lists,
   about : Provider \cup {Null}, back : BOOLEAN]

\* The window is around the highlighted row and within the rows
WellPlaced(l) ==
  IF l.items = <<>> THEN l.at = 0 /\ l.top = 0
  ELSE /\ l.at < Len(l.items)
       /\ l.top <= l.at /\ l.at < l.top + l.max
       /\ l.top + l.max <= Len(l.items) \/ l.top = 0

\* d is about one provider, or its rows are what its kind says
Names(d) ==
  /\ d.kind = "key" => d.about \in Provider
  /\ d.kind \in {"login", "logout"} =>
       \A i \in 1 .. Len(d.list.items) : d.list.items[i] \in Provider
  /\ d.kind \in {"login", "logout"} => d.offers \subseteq Provider

Fine(d) == d \in Dialogs /\ WellPlaced(d.list) /\ Names(d)

ScreensInv ==
  /\ model \in [Proc -> Model \cup {Null}]
  /\ hears \in [Proc -> BOOLEAN]
  /\ DOMAIN dialog = Proc
  /\ \A p \in Proc : Fine(dialog[p])

TerminalsInv == FilesInv /\ ScreensInv

-----------------------------------------------------------------------------
(* Lists *)

\* A step up or down stays within the rows
LEMMA Wraps ==
  ASSUME NEW n \in Nat \ {0}, NEW i \in 0 .. n - 1
  PROVE  (i - 1) % n \in 0 .. n - 1 /\ (i + 1) % n \in 0 .. n - 1
OBVIOUS

\* A new list is well placed (set_items)
LEMMA NewList ==
  ASSUME NEW items \in Seq(Rows), TerminalsAssumption
  PROVE  ListOf(items, MaxRows) \in Lists /\ WellPlaced(ListOf(items, MaxRows))
<1> DEFINE l == ListOf(items, MaxRows)
<1>1. MaxRows \in Nat /\ MaxRows > 0
  BY DEF TerminalsAssumption
<1>2. l.items = items /\ l.at = 0 /\ l.top = 0 /\ l.max = MaxRows
  BY DEF ListOf
<1>3. l \in Lists
  BY <1>1 DEF ListOf, Lists
<1>4. items # <<>> => Len(items) \in Nat /\ Len(items) > 0
  OBVIOUS
<1> HIDE DEF l
<1>5. WellPlaced(l)
  BY <1>1, <1>2, <1>4 DEF WellPlaced
<1> QED BY <1>3, <1>5 DEF l

\* Scrolling brings the window around any highlighted row (_scroll_to_selection)
LEMMA ScrollPlaces ==
  ASSUME NEW l \in Lists, l.items # <<>>, l.at < Len(l.items), TerminalsAssumption
  PROVE  ScrollToSelection(l) \in Lists /\ WellPlaced(ScrollToSelection(l))
<1>1. /\ l.items \in Seq(Rows) /\ l.at \in Nat /\ l.top \in Nat /\ l.max = MaxRows
      /\ MaxRows \in Nat /\ MaxRows > 0 /\ Len(l.items) \in Nat
  BY DEF Lists, TerminalsAssumption
<1> DEFINE seen == CASE l.at < l.top -> l.at
                     [] l.at >= l.top + l.max -> l.at - l.max + 1
                     [] OTHER -> l.top
           last == IF Len(l.items) > l.max THEN Len(l.items) - l.max ELSE 0
           top == IF seen > last THEN last ELSE seen
<1>2. seen \in Nat /\ seen <= l.at /\ l.at < seen + l.max
  BY <1>1
<1>3. /\ last \in Nat /\ l.at < last + l.max
      /\ last + l.max <= Len(l.items) \/ last = 0
  BY <1>1
<1> HIDE DEF seen, last
<1>4. /\ top \in Nat /\ top <= l.at /\ l.at < top + l.max
      /\ top + l.max <= Len(l.items) \/ top = 0
  BY <1>1, <1>2, <1>3
<1>5. ScrollToSelection(l) = [l EXCEPT !.top = top]
  BY DEF ScrollToSelection, seen, last
<1> HIDE DEF top
<1> QED BY <1>1, <1>4, <1>5 DEF WellPlaced, Lists

\* Up and down leave a well placed list of the same rows (move_up, move_down)
LEMMA MovesPlace ==
  ASSUME NEW l \in Lists, WellPlaced(l), TerminalsAssumption
  PROVE  /\ MoveUp(l) \in Lists /\ WellPlaced(MoveUp(l)) /\ MoveUp(l).items = l.items
         /\ MoveDown(l) \in Lists /\ WellPlaced(MoveDown(l)) /\ MoveDown(l).items = l.items
<1>1. CASE l.items = <<>>
  BY <1>1 DEF MoveUp, MoveDown, IsEmpty
<1>2. CASE l.items # <<>>
  <2>1. Len(l.items) \in Nat \ {0} /\ l.at \in 0 .. Len(l.items) - 1
    BY <1>2 DEF Lists, WellPlaced
  <2>2. ASSUME NEW i \in 0 .. Len(l.items) - 1
        PROVE  Highlight(l, i) \in Lists /\ WellPlaced(Highlight(l, i)) /\ Highlight(l, i).items = l.items
    <3> DEFINE m == [l EXCEPT !.at = i]
    <3>1. m \in Lists /\ m.items = l.items /\ m.at = i
      BY <2>1 DEF Lists
    <3>2. m.items # <<>> /\ m.at < Len(m.items)
      BY <1>2, <2>1, <3>1
    <3>3. ScrollToSelection(m).items = m.items
      BY <3>1 DEF ScrollToSelection, Lists
    <3>4. Highlight(l, i) = ScrollToSelection(m)
      BY DEF Highlight
    <3> HIDE DEF m
    <3> QED BY <3>1, <3>2, <3>3, <3>4, ScrollPlaces
  <2>3. /\ (l.at - 1) % Len(l.items) \in 0 .. Len(l.items) - 1
        /\ (l.at + 1) % Len(l.items) \in 0 .. Len(l.items) - 1
    BY <2>1, Wraps
  <2> QED BY <1>2, <2>2, <2>3 DEF MoveUp, MoveDown, IsEmpty
<1> QED BY <1>1, <1>2

-----------------------------------------------------------------------------
(* Files *)

\* The names of the settings are not those of providers
LEMMA Names2 ==
  ASSUME TerminalsAssumption
  PROVE  /\ Provider \cap Fields = {} /\ Entry = Provider \cup Fields
         /\ {"default_model", "default_provider", "tui_permission_mode",
             "retry_initial_delay", "retry_max_delay"} = Fields
         /\ \A q \in Provider : q # "default_model" /\ q # "default_provider"
BY DEF TerminalsAssumption, Entry, Fields

\* What the handlers put into entries is what entries may hold
LEMMA Values ==
  ASSUME FilesAssumption
  PROVE  /\ \A q \in Provider, t \in Text : KeyFor(q, t) \in Value
         /\ NoKey \in Value /\ Model \subseteq Value /\ Modes \subseteq Value
         /\ \A f \in Fields : Given[f] \subseteq Value /\ Default[f] \in Value
<1>1. 0 \in Value /\ MaxDelay \in Value
  BY DEF FilesAssumption, Value, Delays
<1>2. \A f \in Fields : Default[f] \in {Null, 0, MaxDelay, "ask"}
  BY DEF Fields, Default
<1>3. Null \in Value /\ "ask" \in Value
  BY DEF Value, Modes
<1>4. \A f \in Fields : Given[f] \subseteq Value
  BY DEF Value
<1>5. Model \subseteq Value /\ Modes \subseteq Value /\ NoKey \in Value
  BY DEF Value, FilesAssumption
<1>6. \A q \in Provider, t \in Text : KeyFor(q, t) \in Value
  BY DEF Value
<1> QED BY <1>1, <1>2, <1>3, <1>4, <1>5, <1>6

\* The copy of a process that does not run says nothing
LEMMA NoCopyIsFine ==
  ASSUME FilesAssumption, TerminalsAssumption
  PROVE  NoCopy \in [Entry -> Value] /\ Tagged(NoCopy) /\ Current(NoCopy)
<1>1. NoCopy \in [Entry -> Value]
  BY Values, Names2 DEF NoCopy
<1>2. Tagged(NoCopy)
  BY Names2 DEF NoCopy, Tagged
<1>3. NoCopy["default_model"] = Null /\ NoCopy["default_provider"] = Null
  BY Names2 DEF NoCopy, Default
<1>4. Null \notin Retired
  BY DEF FilesAssumption
<1> QED BY <1>1, <1>2, <1>3, <1>4 DEF Current, Normalized

\* A model id has one replacement at most, and it is no old id
LEMMA NormalizedOnce ==
  ASSUME FilesAssumption, NEW q, NEW n
  PROVE  /\ Normalized(q, Normalized(q, n)) = Normalized(q, n)
         /\ n \in Value => Normalized(q, n) \in Value
         /\ Normalized(q, n) = n \/ Normalized(q, n) \in Model
<1>1. n \in Retired => Alias[n] \in Model /\ Alias[n] \notin Retired
  BY DEF FilesAssumption
<1>2. Model \subseteq Value
  BY Values
<1> QED BY <1>1, <1>2 DEF Normalized

\* Migration changes at most the model, and then it is current
LEMMA MigratedIsCurrent ==
  ASSUME FilesAssumption, TerminalsAssumption, NEW m \in [Entry -> Value]
  PROVE  /\ Migrated(m) \in [Entry -> Value] /\ Current(Migrated(m))
         /\ \A e \in Entry : e # "default_model" => Migrated(m)[e] = m[e]
         /\ Current(m) => Migrated(m) = m
<1> DEFINE q == IF m["default_provider"] = Null THEN Home ELSE m["default_provider"]
           n == Normalized(q, m["default_model"])
<1>1. Migrated(m) = [m EXCEPT !["default_model"] = n]
  BY DEF Migrated
<1>2. "default_model" \in Entry /\ "default_provider" \in Entry
  BY Names2
<1>3. n \in Value /\ Normalized(q, n) = n
  <2>1. m["default_model"] \in Value
    BY <1>2
  <2> QED BY <2>1, NormalizedOnce
<1>4. /\ Migrated(m) \in [Entry -> Value] /\ Migrated(m)["default_model"] = n
      /\ \A e \in Entry : e # "default_model" => Migrated(m)[e] = m[e]
  BY <1>1, <1>2, <1>3
<1>5. Migrated(m)["default_provider"] = m["default_provider"]
  BY <1>2, <1>4
<1>6. Current(Migrated(m))
  BY <1>3, <1>4, <1>5 DEF Current
<1>7. ASSUME Current(m) PROVE Migrated(m) = m
  <2>1. n = m["default_model"]
    BY <1>7 DEF Current
  <2> QED BY <1>1, <2>1
<1> QED BY <1>4, <1>6, <1>7

\* Changing one setting changes no other, save that a new default provider takes
\* old model ids along (set_value, set_permission_mode)
LEMMA SettingChanged ==
  ASSUME FilesAssumption, TerminalsAssumption, NEW m \in [Entry -> Value],
         Tagged(m), NEW f \in Fields, NEW v \in Value,
         NEW s, s = Migrated([m EXCEPT ![f] = v])
  PROVE  /\ s \in [Entry -> Value] /\ Tagged(s) /\ Current(s)
         /\ \A q \in Provider : s[q] = m[q]
         /\ Current(m) => \A e \in Entry : s[e] # m[e] =>
              e = f \/ (f = "default_provider" /\ e = "default_model")
<1> DEFINE k == [m EXCEPT ![f] = v]
<1>0. s = Migrated(k)
  OBVIOUS
<1>1. f \in Entry /\ k \in [Entry -> Value] /\ k[f] = v
      /\ \A e \in Entry : e # f => k[e] = m[e]
  BY Names2
<1> HIDE DEF k
<1>2. /\ s \in [Entry -> Value] /\ Current(s)
      /\ \A e \in Entry : e # "default_model" => s[e] = k[e]
  <2>1. /\ Migrated(k) \in [Entry -> Value] /\ Current(Migrated(k))
        /\ \A e \in Entry : e # "default_model" => Migrated(k)[e] = k[e]
    BY <1>1, MigratedIsCurrent, ZenonT(40)
  <2> QED BY <1>0, <2>1
<1>3. \A q \in Provider : s[q] = m[q]
  <2> TAKE q \in Provider
  <2>1. q \in Entry /\ q # "default_model" /\ q # f
    BY Names2
  <2> QED BY <1>1, <1>2, <2>1
<1>4. Tagged(s)
  BY <1>3 DEF Tagged
<1>5. ASSUME Current(m), f # "default_provider", f # "default_model"
      PROVE  s["default_model"] = m["default_model"]
  <2>1. "default_model" \in Entry /\ "default_provider" \in Entry
    BY Names2
  <2>2. k["default_model"] = m["default_model"] /\ k["default_provider"] = m["default_provider"]
    BY <1>1, <1>5, <2>1
  <2>3. Current(k)
    BY <1>5, <2>2 DEF Current
  <2>4. s = k
    BY <1>0, <1>1, <2>3, MigratedIsCurrent
  <2> QED BY <2>2, <2>4
<1>6. ASSUME Current(m), NEW e \in Entry, s[e] # m[e]
      PROVE  e = f \/ (f = "default_provider" /\ e = "default_model")
  BY <1>1, <1>2, <1>5, <1>6
<1> QED BY <1>2, <1>3, <1>4, <1>6

\* What the disk holds when one of its files is replaced
LEMMA Joined ==
  ASSUME FilesAssumption, TerminalsAssumption,
         NEW a \in [Entry -> Value], NEW b \in [Entry -> Value],
         Tagged(a), Tagged(b), Current(a), Current(b), NEW file \in {Provider, Fields},
         file = Provider => Valid(b), file = Fields => Valid(a),
         NEW r, r = [e \in Entry |-> IF e \in file THEN a[e] ELSE b[e]]
  PROVE  r \in [Entry -> Value] /\ Tagged(r) /\ Current(r) /\ Valid(r)
<1>1. r \in [Entry -> Value]
  OBVIOUS
<1>2. CASE file = Provider
  <2>1. /\ \A q \in Provider : r[q] = a[q]
        /\ \A f \in Fields : r[f] = b[f]
    BY <1>2, Names2
  <2>2. Tagged(r) /\ Current(r)
    BY <2>1, Names2, ZenonT(40) DEF Tagged, Current
  <2>3. Valid(r)
    BY <1>2, <2>1, Names2, SMTT(40) DEF Valid
  <2> QED BY <2>2, <2>3
<1>3. CASE file = Fields
  <2>1. /\ \A q \in Provider : r[q] = b[q]
        /\ \A f \in Fields : r[f] = a[f]
    BY <1>3, Names2
  <2>2. Tagged(r) /\ Current(r)
    BY <2>1, Names2, ZenonT(40) DEF Tagged, Current
  <2>3. Valid(r)
    BY <1>3, <2>1, Names2, SMTT(40) DEF Valid
  <2> QED BY <2>2, <2>3
<1> QED BY <1>1, <1>2, <1>3

\* A save keeps the invariant of the files, if what p has in memory is in order
\* and is, outside the file, what it was
LEMMA SaveKeepsFiles ==
  ASSUME FilesAssumption, TerminalsAssumption, FilesInv,
         NEW p \in Proc, NEW file \in {Provider, Fields}, NEW memory \in [Entry -> Value],
         Tagged(memory), Current(memory), file = Fields => Valid(memory),
         \A e \in Entry : e \notin file => memory[e] = copy[p][e],
         Runs(p), \A x \in Proc : Runs(x)' => Runs(x),
         Save(p, file, memory)
  PROVE  FilesInv'
<1>0. FilesTyped /\ file \subseteq Entry
  BY Names2 DEF FilesInv
<1>1. /\ copy' = [copy EXCEPT ![p] = memory]
      /\ disk' = [e \in Entry |-> IF e \in file THEN memory[e] ELSE disk[e]]
      /\ behind' = [x \in Proc |->
                      IF x = p THEN behind[x] \ file
                      ELSE behind[x] \cup {e \in file : memory[e] # disk[e]}]
      /\ unsaved' = [unsaved EXCEPT ![p] = @ \ file]
      /\ saves' = saves + 1
  BY DEF Save, Attempt
<1>2. FilesTyped'
  <2>1. copy' \in [Proc -> [Entry -> Value]] /\ unsaved' \in [Proc -> SUBSET Entry] /\ saves' \in Nat
    BY <1>0, <1>1 DEF FilesTyped
  <2>2. disk' \in [Entry -> Value]
    BY <1>0, <1>1 DEF FilesTyped
  <2>3. behind' \in [Proc -> SUBSET Entry]
    BY <1>0, <1>1 DEF FilesTyped
  <2> QED BY <2>1, <2>2, <2>3 DEF FilesTyped
<1>3. Tagged(disk') /\ Current(disk') /\ Valid(disk')
  <2>1. disk \in [Entry -> Value] /\ Tagged(disk) /\ Current(disk) /\ Valid(disk)
    BY DEF FilesInv, FilesTyped
  <2>2. disk' = [e \in Entry |-> IF e \in file THEN memory[e] ELSE disk[e]]
    BY <1>1
  <2> QED BY <2>1, <2>2, Joined
<1>4. \A x \in Proc : Tagged(copy'[x]) /\ Current(copy'[x])
  <2> TAKE x \in Proc
  <2>1. copy'[x] = IF x = p THEN memory ELSE copy[x]
    BY <1>0, <1>1 DEF FilesTyped
  <2>2. Tagged(copy[x]) /\ Current(copy[x])
    BY DEF FilesInv
  <2> QED BY <2>1, <2>2
<1>5. \A x \in Proc : Runs(x)' => InStep(x)'
  <2> SUFFICES ASSUME NEW x \in Proc, Runs(x)', NEW e \in Entry,
                      e \notin behind'[x] \cup unsaved'[x]
               PROVE  copy'[x][e] = disk'[e]
    BY DEF InStep
  <2>1. Runs(x) /\ InStep(x)
    BY DEF FilesInv
  <2>2. disk'[e] = IF e \in file THEN memory[e] ELSE disk[e]
    BY <1>1
  <2>3. CASE x = p
    <3>1. copy'[x][e] = memory[e]
      BY <1>0, <1>1, <2>3 DEF FilesTyped
    <3>2. CASE e \in file
      BY <2>2, <3>1, <3>2
    <3>3. CASE e \notin file
      <4>1. e \notin behind[p] /\ e \notin unsaved[p]
        BY <1>0, <1>1, <2>3, <3>3 DEF FilesTyped
      <4>2. copy[p][e] = disk[e]
        BY <2>1, <2>3, <4>1 DEF InStep
      <4> QED BY <2>2, <3>1, <3>3, <4>2
    <3> QED BY <3>2, <3>3
  <2>4. CASE x # p
    <3>1. copy'[x] = copy[x] /\ unsaved'[x] = unsaved[x]
      BY <1>0, <1>1, <2>4 DEF FilesTyped
    <3>2. e \notin behind[x] /\ ~(e \in file /\ memory[e] # disk[e])
      BY <1>1, <2>4
    <3>3. copy[x][e] = disk[e]
      BY <2>1, <3>1, <3>2 DEF InStep
    <3> QED BY <2>2, <3>1, <3>2, <3>3
  <2> QED BY <2>3, <2>4
<1> QED BY <1>2, <1>3, <1>4, <1>5 DEF FilesInv

\* So does a save that fails, if it is noted what has changed in memory
LEMMA FailureKeepsFiles ==
  ASSUME FilesAssumption, TerminalsAssumption, FilesInv,
         NEW p \in Proc, NEW changed \in SUBSET Entry, NEW memory \in [Entry -> Value],
         Tagged(memory), Current(memory),
         \A e \in Entry : e \notin changed => memory[e] = copy[p][e],
         \A x \in Proc : Runs(x)' => Runs(x),
         SaveFails(p, changed, memory)
  PROVE  FilesInv'
<1>0. FilesTyped
  BY DEF FilesInv
<1>1. /\ copy' = [copy EXCEPT ![p] = memory]
      /\ unsaved' = [unsaved EXCEPT ![p] = @ \cup changed]
      /\ disk' = disk /\ behind' = behind /\ saves' = saves + 1
  BY DEF SaveFails, Attempt
<1>2. FilesTyped'
  BY <1>0, <1>1 DEF FilesTyped
<1>3. Tagged(disk') /\ Current(disk') /\ Valid(disk')
  BY <1>1 DEF FilesInv
<1>4. \A x \in Proc : Tagged(copy'[x]) /\ Current(copy'[x])
  <2> TAKE x \in Proc
  <2>1. copy'[x] = IF x = p THEN memory ELSE copy[x]
    BY <1>0, <1>1 DEF FilesTyped
  <2>2. Tagged(copy[x]) /\ Current(copy[x])
    BY DEF FilesInv
  <2> QED BY <2>1, <2>2
<1>5. \A x \in Proc : Runs(x)' => InStep(x)'
  <2> SUFFICES ASSUME NEW x \in Proc, Runs(x)', NEW e \in Entry,
                      e \notin behind'[x] \cup unsaved'[x]
               PROVE  copy'[x][e] = disk'[e]
    BY DEF InStep
  <2>1. InStep(x)
    BY DEF FilesInv
  <2>2. e \notin behind[x] /\ e \notin unsaved[x] /\ (x = p => e \notin changed)
    BY <1>0, <1>1 DEF FilesTyped
  <2>3. copy[x][e] = disk[e]
    BY <2>1, <2>2 DEF InStep
  <2>4. copy'[x][e] = copy[x][e]
    BY <1>0, <1>1, <2>2 DEF FilesTyped
  <2> QED BY <1>1, <2>3, <2>4
<1> QED BY <1>2, <1>3, <1>4, <1>5 DEF FilesInv

\* And whatever leaves the files alone and starts no process
LEMMA FilesUnchanged ==
  ASSUME FilesInv, UNCHANGED files, \A x \in Proc : Runs(x)' => Runs(x)
  PROVE  FilesInv'
<1>1. disk' = disk /\ copy' = copy /\ behind' = behind /\ unsaved' = unsaved /\ saves' = saves
  BY DEF files
<1>2. \A x \in Proc : Runs(x)' => InStep(x)'
  BY <1>1 DEF FilesInv, InStep
<1> QED BY <1>1, <1>2 DEF FilesInv, FilesTyped

\* A save that changes f, and otherwise at most what p had not yet read or saved
LEMMA SaveChangesOne ==
  ASSUME NEW p \in Proc, NEW file, NEW memory, NEW f \in Entry, Save(p, file, memory),
         \A e \in Entry : e \in file /\ memory[e] # disk[e] =>
            \/ e = f \/ e \in behind[p] \cup unsaved[p]
            \/ f = "default_provider" /\ e = "default_model"
  PROVE  OneEntryChanges
<1>1. disk' = [e \in Entry |-> IF e \in file THEN memory[e] ELSE disk[e]]
  BY DEF Save
<1> QED BY <1>1 DEF OneEntryChanges

\* Where the file stays, nothing changes
LEMMA NothingChanges ==
  ASSUME NEW p \in Proc, disk' = disk
  PROVE  OneEntryChanges
BY DEF OneEntryChanges, Entry, Fields

-----------------------------------------------------------------------------
(* The operations on the files *)

\* A login (_save_key_for)
LEMMA SaveKeyKeepsFiles ==
  ASSUME FilesAssumption, TerminalsAssumption, FilesInv, NEW p \in Proc,
         NEW q \in Provider, NEW t \in Text, NEW session, NEW ok \in BOOLEAN,
         Runs(p), \A x \in Proc : Runs(x)' => Runs(x),
         SaveKeyFor(p, q, t, session, ok)
  PROVE  FilesInv' /\ OneEntryChanges
<1> DEFINE k == [copy[p] EXCEPT ![q] = KeyFor(q, t)]
<1>0. k = [copy[p] EXCEPT ![q] = KeyFor(q, t)]
  OBVIOUS
<1>1. copy[p] \in [Entry -> Value] /\ Tagged(copy[p]) /\ Current(copy[p]) /\ InStep(p)
  BY DEF FilesInv, FilesTyped
<1>2. KeyFor(q, t) \in Value /\ KeyFor(q, t).for = q
  BY Values DEF KeyFor
<1>4. q \in Entry /\ Provider \in {Provider, Fields} /\ Provider # Fields
  BY Names2
<1>5. IF ok THEN Save(p, Provider, k) ELSE SaveFails(p, {q}, k)
  BY DEF SaveKeyFor
<1> HIDE DEF k
<1>3. /\ k \in [Entry -> Value] /\ Tagged(k) /\ Current(k)
      /\ \A e \in Entry : e # q => k[e] = copy[p][e]
  <2>1. /\ q \in Entry /\ k \in [Entry -> Value]
        /\ k[q] = NoKey \/ k[q].for = q
        /\ \A e \in Entry : e # q => k[e] = copy[p][e]
    BY <1>0, <1>1, <1>2, Names2
  <2>2. /\ k["default_model"] = copy[p]["default_model"]
        /\ k["default_provider"] = copy[p]["default_provider"]
    BY <2>1, Names2
  <2>3. Current(k)
    BY <1>1, <2>2 DEF Current
  <2>4. Tagged(k)
    BY <1>1, <2>1, Names2 DEF Tagged
  <2> QED BY <2>1, <2>3, <2>4
<1>6. CASE ok
  <2>1. FilesInv'
    BY <1>3, <1>4, <1>5, <1>6, SaveKeepsFiles
  <2>2. \A e \in Entry : e \in Provider /\ k[e] # disk[e] =>
          e = q \/ e \in behind[p] \cup unsaved[p]
    BY <1>1, <1>3 DEF InStep
  <2>3. Save(p, Provider, k)
    BY <1>5, <1>6
  <2>4. OneEntryChanges
    BY <1>4, <2>2, <2>3, SaveChangesOne
  <2> QED BY <2>1, <2>4
<1>7. CASE ~ok
  <2>1. {q} \in SUBSET Entry /\ \A e \in Entry : e \notin {q} => k[e] = copy[p][e]
    BY <1>3, <1>4
  <2>2. SaveFails(p, {q}, k)
    BY <1>5, <1>7
  <2>3. FilesInv'
    BY <1>3, <2>1, <2>2, FailureKeepsFiles
  <2>4. OneEntryChanges
    BY <2>2, NothingChanges DEF SaveFails
  <2> QED BY <2>3, <2>4
<1> QED BY <1>6, <1>7

\* A logout (_remove_key_for)
LEMMA RemoveKeyKeepsFiles ==
  ASSUME FilesAssumption, TerminalsAssumption, FilesInv, NEW p \in Proc,
         NEW q \in Provider, NEW ok \in BOOLEAN,
         Runs(p), \A x \in Proc : Runs(x)' => Runs(x),
         RemoveKeyFor(p, q, ok)
  PROVE  FilesInv' /\ OneEntryChanges
<1> DEFINE k == [copy[p] EXCEPT ![q] = NoKey]
<1>0. k = [copy[p] EXCEPT ![q] = NoKey]
  OBVIOUS
<1>1. copy[p] \in [Entry -> Value] /\ Tagged(copy[p]) /\ Current(copy[p]) /\ InStep(p)
  BY DEF FilesInv, FilesTyped
<1>2. NoKey \in Value
  BY Values
<1>4. q \in Entry /\ Provider \in {Provider, Fields} /\ Provider # Fields
  BY Names2
<1>5. \/ UNCHANGED files
      \/ ok /\ Save(p, Provider, k)
      \/ ~ok /\ SaveFails(p, {q}, k)
  BY DEF RemoveKeyFor
<1> HIDE DEF k
<1>3. /\ k \in [Entry -> Value] /\ Tagged(k) /\ Current(k)
      /\ \A e \in Entry : e # q => k[e] = copy[p][e]
  <2>1. /\ q \in Entry /\ k \in [Entry -> Value]
        /\ k[q] = NoKey \/ k[q].for = q
        /\ \A e \in Entry : e # q => k[e] = copy[p][e]
    BY <1>0, <1>1, <1>2, Names2
  <2>2. /\ k["default_model"] = copy[p]["default_model"]
        /\ k["default_provider"] = copy[p]["default_provider"]
    BY <2>1, Names2
  <2>3. Current(k)
    BY <1>1, <2>2 DEF Current
  <2>4. Tagged(k)
    BY <1>1, <2>1, Names2 DEF Tagged
  <2> QED BY <2>1, <2>3, <2>4
<1>6. CASE UNCHANGED files
  <2>1. disk' = disk
    BY <1>6 DEF files
  <2> QED BY <1>6, <2>1, FilesUnchanged, NothingChanges, SMTT(40)
<1>7. CASE Save(p, Provider, k)
  <2>1. FilesInv'
    BY <1>3, <1>4, <1>7, SaveKeepsFiles
  <2>2. \A e \in Entry : e \in Provider /\ k[e] # disk[e] =>
          e = q \/ e \in behind[p] \cup unsaved[p]
    BY <1>1, <1>3 DEF InStep
  <2>3. OneEntryChanges
    BY <1>4, <1>7, <2>2, SaveChangesOne
  <2> QED BY <2>1, <2>3
<1>8. CASE SaveFails(p, {q}, k)
  <2>1. {q} \in SUBSET Entry /\ \A e \in Entry : e \notin {q} => k[e] = copy[p][e]
    BY <1>3, <1>4
  <2>2. FilesInv'
    BY <1>3, <1>8, <2>1, FailureKeepsFiles
  <2>3. OneEntryChanges
    BY <1>8, NothingChanges DEF SaveFails
  <2> QED BY <2>2, <2>3
<1> QED BY <1>5, <1>6, <1>7, <1>8

\* /settings (set_value)
LEMMA SetValueKeepsFiles ==
  ASSUME FilesAssumption, TerminalsAssumption, FilesInv, NEW p \in Proc,
         NEW f \in Fields, NEW v \in Given[f], NEW ok \in BOOLEAN,
         Runs(p), \A x \in Proc : Runs(x)' => Runs(x),
         SetValue(p, f, v, ok)
  PROVE  FilesInv' /\ OneEntryChanges
<1> DEFINE s == Migrated([copy[p] EXCEPT ![f] = v])
           changed == {e \in Fields : s[e] # copy[p][e]}
<1>1. copy[p] \in [Entry -> Value] /\ Tagged(copy[p]) /\ Current(copy[p]) /\ InStep(p)
  BY DEF FilesInv, FilesTyped
<1>2. v \in Value
  BY Values
<1>3. /\ s \in [Entry -> Value] /\ Tagged(s) /\ Current(s)
      /\ \A q \in Provider : s[q] = copy[p][q]
      /\ \A e \in Entry : s[e] # copy[p][e] =>
           e = f \/ (f = "default_provider" /\ e = "default_model")
  BY <1>1, <1>2, SettingChanged, SMTT(40)
<1>4. f \in Entry /\ Fields \in {Provider, Fields}
  BY Names2
<1>5. IF Valid(s) /\ ok THEN Save(p, Fields, s) ELSE SaveFails(p, changed, s)
  BY DEF SetValue
<1> HIDE DEF s
<1>6. CASE Valid(s) /\ ok
  <2>1. \A e \in Entry : e \notin Fields => s[e] = copy[p][e]
    BY <1>3, Names2
  <2>2. Save(p, Fields, s)
    BY <1>5, <1>6
  <2>3. FilesInv'
    BY <1>3, <1>4, <1>6, <2>1, <2>2, SaveKeepsFiles
  <2>4. \A e \in Entry : e \in Fields /\ s[e] # disk[e] =>
          \/ e = f \/ e \in behind[p] \cup unsaved[p]
          \/ f = "default_provider" /\ e = "default_model"
    BY <1>1, <1>3 DEF InStep
  <2>5. OneEntryChanges
    BY <1>4, <2>2, <2>4, SaveChangesOne
  <2> QED BY <2>3, <2>5
<1>7. CASE ~(Valid(s) /\ ok)
  <2>1. changed \in SUBSET Entry /\ \A e \in Entry : e \notin changed => s[e] = copy[p][e]
    BY <1>3, Names2
  <2>2. SaveFails(p, changed, s)
    BY <1>5, <1>7
  <2> HIDE DEF changed
  <2>3. FilesInv'
    BY <1>3, <2>1, <2>2, FailureKeepsFiles
  <2>4. OneEntryChanges
    BY <2>2, NothingChanges DEF SaveFails
  <2> QED BY <2>3, <2>4
<1> QED BY <1>6, <1>7

\* /permissions (set_permission_mode): read again, changed and saved
LEMMA SetPermissionKeepsFiles ==
  ASSUME FilesAssumption, TerminalsAssumption, FilesInv, NEW p \in Proc,
         NEW v \in Modes, NEW ok \in BOOLEAN,
         Runs(p), \A x \in Proc : Runs(x)' => Runs(x),
         SetPermission(p, v, ok)
  PROVE  FilesInv' /\ OneEntryChanges
<1> DEFINE mode == "tui_permission_mode"
           read == [e \in Entry |-> IF e \in Fields THEN disk[e] ELSE copy[p][e]]
           s == Migrated([read EXCEPT ![mode] = v])
<1>0. read = [e \in Entry |-> IF e \in Fields THEN disk[e] ELSE copy[p][e]]
  OBVIOUS
<1>1. /\ copy[p] \in [Entry -> Value] /\ Tagged(copy[p]) /\ Current(copy[p]) /\ InStep(p)
      /\ disk \in [Entry -> Value] /\ Tagged(disk) /\ Current(disk) /\ Valid(disk)
  BY DEF FilesInv, FilesTyped
<1>2. v \in Value /\ mode \in Fields /\ mode \in Entry /\ Fields \in {Provider, Fields}
  BY Values, Names2
<1>3. IF ok THEN Save(p, Fields, s)
      ELSE /\ Attempt /\ UNCHANGED disk
           /\ copy' = [copy EXCEPT ![p] = read]
           /\ behind' = [behind EXCEPT ![p] = @ \ Fields]
           /\ unsaved' = [unsaved EXCEPT ![p] = @ \ Fields]
  BY DEF SetPermission
<1> HIDE DEF read
<1>4. /\ read \in [Entry -> Value]
      /\ \A f \in Fields : read[f] = disk[f]
      /\ \A q \in Provider : read[q] = copy[p][q]
  BY <1>0, <1>1, Names2
<1>5. Tagged(read)
  BY <1>1, <1>4 DEF Tagged
<1>6. Current(read)
  <2>1. read["default_model"] = disk["default_model"]
        /\ read["default_provider"] = disk["default_provider"]
    BY <1>4, Names2
  <2> QED BY <1>1, <2>1 DEF Current
<1>7. CASE ok
  <2>0. s = Migrated([read EXCEPT ![mode] = v])
    OBVIOUS
  <2>1. Save(p, Fields, s)
    BY <1>3, <1>7
  <2> DEFINE k == [read EXCEPT ![mode] = v]
  <2>11. /\ k \in [Entry -> Value] /\ k[mode] = v
        /\ \A e \in Entry : e # mode => k[e] = read[e]
    BY <1>2, <1>4
  <2> HIDE DEF k
  <2>12. k["default_model"] = read["default_model"] /\ k["default_provider"] = read["default_provider"]
    BY <2>11, Names2
  <2>13. Current(k)
    BY <1>6, <2>12 DEF Current
  <2>14. Migrated(k) = k
    BY <2>11, <2>13, MigratedIsCurrent
  <2>15. s = k
    BY <2>0, <2>14 DEF k
  <2> HIDE DEF s, mode
  <2>16. ASSUME NEW q \in Provider PROVE k[q] = read[q]
    <3>1. q \in Entry /\ q # mode
      BY <1>2, Names2
    <3> QED BY <2>11, <3>1
  <2>2. /\ s \in [Entry -> Value] /\ Tagged(s) /\ Current(s)
        /\ \A q \in Provider : s[q] = read[q]
        /\ \A e \in Entry : s[e] # read[e] => e = mode
    BY <1>5, <2>11, <2>13, <2>15, <2>16 DEF Tagged
  <2>3. s[mode] = v
    BY <2>11, <2>15
  <2> USE DEF mode
  <2>4. Valid(s)
    <3>1. /\ s["default_provider"] = disk["default_provider"]
          /\ s["default_model"] = disk["default_model"]
          /\ s["retry_initial_delay"] = disk["retry_initial_delay"]
          /\ s["retry_max_delay"] = disk["retry_max_delay"]
      BY <1>4, <2>2, Names2
    <3> QED BY <1>1, <2>3, <3>1 DEF Valid
  <2>5. ASSUME NEW e \in Entry, e \notin Fields PROVE s[e] = copy[p][e]
    <3>1. e \in Provider
      BY <2>5 DEF Entry
    <3> QED BY <1>4, <2>2, <3>1
  <2>6. FilesInv'
    BY <1>2, <2>1, <2>2, <2>4, <2>5, SaveKeepsFiles
  <2>7. \A e \in Entry : e \in Fields /\ s[e] # disk[e] => e = mode
    BY <1>4, <2>2
  <2>8. OneEntryChanges
    BY <1>2, <2>1, <2>7, SaveChangesOne
  <2> QED BY <2>6, <2>8
<1>8. CASE ~ok
  <2>1. /\ disk' = disk /\ copy' = [copy EXCEPT ![p] = read] /\ saves' = saves + 1
        /\ behind' = [behind EXCEPT ![p] = @ \ Fields]
        /\ unsaved' = [unsaved EXCEPT ![p] = @ \ Fields]
    BY <1>3, <1>8 DEF Attempt
  <2>2. FilesTyped
    BY DEF FilesInv
  <2>3. FilesTyped'
    BY <1>4, <2>1, <2>2 DEF FilesTyped
  <2>4. \A x \in Proc : copy'[x] = IF x = p THEN read ELSE copy[x]
    BY <2>1, <2>2 DEF FilesTyped
  <2>5. \A x \in Proc : Tagged(copy'[x]) /\ Current(copy'[x])
    BY <1>5, <1>6, <2>4 DEF FilesInv
  <2>6. \A x \in Proc : Runs(x)' => InStep(x)'
    <3> SUFFICES ASSUME NEW x \in Proc, Runs(x)', NEW e \in Entry,
                        e \notin behind'[x] \cup unsaved'[x]
                 PROVE  copy'[x][e] = disk'[e]
      BY DEF InStep
    <3>1. InStep(x)
      BY DEF FilesInv
    <3>2. CASE x = p /\ e \in Fields
      BY <1>4, <2>1, <2>4, <3>2
    <3>3. CASE ~(x = p /\ e \in Fields)
      <4>1. e \notin behind[x] /\ e \notin unsaved[x]
        BY <2>1, <2>2, <3>3 DEF FilesTyped
      <4>2. copy[x][e] = disk[e]
        BY <3>1, <4>1 DEF InStep
      <4>3. copy'[x][e] = copy[x][e]
        BY <1>4, <2>4, <3>3, Names2
      <4> QED BY <2>1, <4>2, <4>3
    <3> QED BY <3>2, <3>3
  <2>7. FilesInv'
    BY <2>1, <2>3, <2>5, <2>6 DEF FilesInv
  <2> QED BY <2>1, <2>7, NothingChanges
<1> QED BY <1>7, <1>8

\* A process starts, and reads both files (load)
LEMMA LoadKeepsFiles ==
  ASSUME FilesInv, NEW p \in Proc, LoadFiles(p),
         \A x \in Proc : x # p => (Runs(x)' => Runs(x))
  PROVE  FilesInv' /\ OneEntryChanges
<1>1. /\ disk' = disk /\ saves' = saves /\ copy' = [copy EXCEPT ![p] = disk]
      /\ behind' = [behind EXCEPT ![p] = {}] /\ unsaved' = [unsaved EXCEPT ![p] = {}]
  BY DEF LoadFiles
<1>2. FilesTyped
  BY DEF FilesInv
<1>3. FilesTyped'
  BY <1>1, <1>2 DEF FilesTyped
<1>4. \A x \in Proc : copy'[x] = IF x = p THEN disk ELSE copy[x]
  BY <1>1, <1>2 DEF FilesTyped
<1>5. \A x \in Proc : Tagged(copy'[x]) /\ Current(copy'[x])
  BY <1>4 DEF FilesInv
<1>6. \A x \in Proc : Runs(x)' => InStep(x)'
  <2> SUFFICES ASSUME NEW x \in Proc, Runs(x)' PROVE InStep(x)'
    OBVIOUS
  <2>1. CASE x = p
    BY <1>1, <1>4, <2>1 DEF InStep
  <2>2. CASE x # p
    <3>1. InStep(x)
      BY <2>2 DEF FilesInv
    <3>2. copy'[x] = copy[x] /\ behind'[x] = behind[x] /\ unsaved'[x] = unsaved[x]
      BY <1>1, <1>2, <2>2 DEF FilesTyped
    <3> QED BY <1>1, <3>1, <3>2 DEF InStep
  <2> QED BY <2>1, <2>2
<1>7. FilesInv'
  BY <1>1, <1>3, <1>5, <1>6 DEF FilesInv
<1> QED BY <1>1, <1>7, NothingChanges

\* A process ends, and what it had in memory is gone
LEMMA ForgetKeepsFiles ==
  ASSUME FilesAssumption, TerminalsAssumption, FilesInv, NEW p \in Proc, ForgetFiles(p),
         \A x \in Proc : Runs(x)' => Runs(x) /\ x # p
  PROVE  FilesInv' /\ OneEntryChanges
<1>1. /\ disk' = disk /\ saves' = saves /\ copy' = [copy EXCEPT ![p] = NoCopy]
      /\ behind' = [behind EXCEPT ![p] = {}] /\ unsaved' = [unsaved EXCEPT ![p] = {}]
  BY DEF ForgetFiles
<1>2. FilesTyped
  BY DEF FilesInv
<1>3. NoCopy \in [Entry -> Value] /\ Tagged(NoCopy) /\ Current(NoCopy)
  BY NoCopyIsFine
<1>4. FilesTyped'
  BY <1>1, <1>2, <1>3 DEF FilesTyped
<1>5. \A x \in Proc : copy'[x] = IF x = p THEN NoCopy ELSE copy[x]
  BY <1>1, <1>2 DEF FilesTyped
<1>6. \A x \in Proc : Tagged(copy'[x]) /\ Current(copy'[x])
  BY <1>3, <1>5 DEF FilesInv
<1>7. \A x \in Proc : Runs(x)' => InStep(x)'
  <2> SUFFICES ASSUME NEW x \in Proc, Runs(x)' PROVE InStep(x)'
    OBVIOUS
  <2>1. InStep(x) /\ x # p
    BY DEF FilesInv
  <2>2. copy'[x] = copy[x] /\ behind'[x] = behind[x] /\ unsaved'[x] = unsaved[x]
    BY <1>1, <1>2, <2>1 DEF FilesTyped
  <2> QED BY <1>1, <2>1, <2>2 DEF InStep
<1>8. FilesInv'
  BY <1>1, <1>4, <1>6, <1>7 DEF FilesInv
<1> QED BY <1>1, <1>8, NothingChanges

-----------------------------------------------------------------------------
(* Dialogs *)

\* A list holds rows of the set that is listed, and only those
LEMMA Listed ==
  ASSUME TerminalsAssumption, NEW first, NEW S \in SUBSET Rows
  PROVE  /\ InOrder(first, S) \in Seq(Rows)
         /\ \A i \in 1 .. Len(InOrder(first, S)) : InOrder(first, S)[i] \in S
<1>1. ASSUME NEW R \in SUBSET Rows
      PROVE  Listing[R] \in Seq(Rows) /\ \A i \in 1 .. Len(Listing[R]) : Listing[R][i] \in R
  BY DEF TerminalsAssumption
<1>2. CASE first \in S
  <2> DEFINE rest == Listing[S \ {first}]
             all == <<first>> \o rest
  <2>1. rest \in Seq(Rows) /\ \A i \in 1 .. Len(rest) : rest[i] \in S
    BY <1>1
  <2> HIDE DEF rest
  <2>2. all \in Seq(Rows) /\ Len(all) = Len(rest) + 1 /\ Len(rest) \in Nat
    BY <1>2, <2>1
  <2>3. ASSUME NEW i \in 1 .. Len(all) PROVE all[i] \in S
    <3>1. CASE i = 1
      BY <1>2, <2>1, <3>1
    <3>2. CASE i # 1
      <4>1. i - 1 \in 1 .. Len(rest) /\ all[i] = rest[i - 1]
        BY <2>1, <2>2, <3>2
      <4> QED BY <2>1, <4>1
    <3> QED BY <3>1, <3>2
  <2>4. InOrder(first, S) = all
    BY <1>2 DEF InOrder, rest
  <2> HIDE DEF all
  <2> QED BY <2>2, <2>3, <2>4
<1>3. CASE first \notin S
  BY <1>1, <1>3 DEF InOrder
<1> QED BY <1>2, <1>3

\* A selector whose filter is applied anew lists some of what it offers, from
\* the first row (_apply_filter)
LEMMA FilteredIsFine ==
  ASSUME TerminalsAssumption, NEW d \in Dialogs, d.kind \in Selectors,
         d.kind \in {"login", "logout"} => d.offers \subseteq Provider
  PROVE  Fine(Filtered(d))
<1> DEFINE items == InOrder(d.first, d.offers \cap Keeps[d.text])
           l == ListOf(items, MaxRows)
<1>1. d.list.max = MaxRows /\ d.offers \subseteq Rows
  BY DEF Dialogs, Lists
<1>2. d.offers \cap Keeps[d.text] \in SUBSET Rows
  BY <1>1
<1>3. items \in Seq(Rows) /\ \A i \in 1 .. Len(items) : items[i] \in d.offers
  BY <1>2, Listed
<1> HIDE DEF items
<1>4. l \in Lists /\ WellPlaced(l) /\ l.items = items
  BY <1>3, NewList DEF ListOf
<1>5. Filtered(d) = [d EXCEPT !.list = l]
  BY <1>1 DEF Filtered, SetItems, items
<1> HIDE DEF l
<1>6. /\ Filtered(d) \in Dialogs /\ Filtered(d).list = l
      /\ Filtered(d).kind = d.kind /\ Filtered(d).offers = d.offers
  BY <1>4, <1>5 DEF Dialogs
<1>7. Names(Filtered(d))
  BY <1>3, <1>4, <1>6 DEF Names, Selectors
<1> QED BY <1>4, <1>6, <1>7 DEF Fine

\* No dialog, and the dialog for the key of a provider
LEMMA PlainDialogs ==
  ASSUME FilesAssumption, TerminalsAssumption
  PROVE  /\ NoDialog \in Dialogs /\ Fine(NoDialog)
         /\ \A q \in Provider, first \in Rows \cup {Null}, back \in BOOLEAN :
              Fine(KeyDialog(q, first, back))
<1>1. <<>> \in Seq(Rows)
  OBVIOUS
<1>2. ListOf(<<>>, MaxRows) \in Lists /\ WellPlaced(ListOf(<<>>, MaxRows))
  BY <1>1, NewList
<1>3. ListOf(<<>>, MaxRows).items = <<>>
  BY DEF ListOf
<1>4. Nothing \in Text
  BY DEF FilesAssumption
<1> DEFINE l == ListOf(<<>>, MaxRows)
<1>5. NoDialog = [kind |-> "none", offers |-> {}, first |-> Null, text |-> Nothing,
                  list |-> l, about |-> Null, back |-> FALSE]
  BY DEF NoDialog
<1> HIDE DEF l
<1>6. NoDialog \in Dialogs /\ NoDialog.list = l /\ NoDialog.kind = "none"
  BY <1>2, <1>4, <1>5 DEF Dialogs, l
<1>7. Fine(NoDialog)
  BY <1>2, <1>6 DEF Fine, Names, l
<1>8. ASSUME NEW q \in Provider, NEW first \in Rows \cup {Null}, NEW back \in BOOLEAN
      PROVE  Fine(KeyDialog(q, first, back))
  <2> DEFINE d == [NoDialog EXCEPT !.kind = "key", !.about = q, !.first = first, !.back = back]
  <2>1. KeyDialog(q, first, back) = d
    BY DEF KeyDialog
  <2>2. d \in Dialogs /\ d.list = l /\ d.kind = "key" /\ d.about = q
    BY <1>6 DEF Dialogs
  <2> HIDE DEF d
  <2>3. Fine(d)
    BY <1>2, <2>2 DEF Fine, Names, l
  <2> QED BY <2>1, <2>3
<1> QED BY <1>6, <1>7, <1>8

\* A selector when it opens
LEMMA SelectorIsFine ==
  ASSUME FilesAssumption, TerminalsAssumption, NEW kind \in Selectors,
         NEW offers \in SUBSET Rows, NEW first \in Rows \cup {Null}, NEW t \in Text,
         kind \in {"login", "logout"} => offers \subseteq Provider
  PROVE  Fine(Selector(kind, offers, first, t))
<1> DEFINE d == [NoDialog EXCEPT !.kind = kind, !.offers = offers, !.first = first, !.text = t]
<1>1. NoDialog \in Dialogs
  BY PlainDialogs
<1>2. d \in Dialogs /\ d.kind = kind /\ d.offers = offers
  BY <1>1 DEF Dialogs
<1>3. Selector(kind, offers, first, t) = Filtered(d)
  BY DEF Selector
<1> HIDE DEF d
<1> QED BY <1>2, <1>3, FilteredIsFine

\* A step that gives p another dialog in order
LEMMA DialogChanges ==
  ASSUME ScreensInv, NEW p \in Proc, NEW d, Fine(d),
         dialog' = [dialog EXCEPT ![p] = d],
         model' \in [Proc -> Model \cup {Null}], hears' \in [Proc -> BOOLEAN]
  PROVE  ScreensInv'
<1>1. DOMAIN dialog = Proc /\ \A x \in Proc : Fine(dialog[x])
  BY DEF ScreensInv
<1>2. DOMAIN dialog' = Proc /\ \A x \in Proc : dialog'[x] = IF x = p THEN d ELSE dialog[x]
  BY <1>1
<1>3. \A x \in Proc : Fine(dialog'[x])
  BY <1>1, <1>2
<1>4. \A x \in Proc : Fine(dialog[x])'
  BY <1>3 DEF Fine, Dialogs, Lists, WellPlaced, Names
<1> QED BY <1>2, <1>4 DEF ScreensInv

\* A step that leaves the dialogs alone
LEMMA DialogsStay ==
  ASSUME ScreensInv, dialog' = dialog,
         model' \in [Proc -> Model \cup {Null}], hears' \in [Proc -> BOOLEAN]
  PROVE  ScreensInv'
<1>1. DOMAIN dialog' = Proc /\ \A x \in Proc : Fine(dialog[x])'
  BY DEF ScreensInv, Fine, Dialogs, Lists, WellPlaced, Names
<1> QED BY <1>1 DEF ScreensInv

-----------------------------------------------------------------------------
(* Actions that leave the files alone *)

\* A process that runs takes up another model and goes on running
LEMMA ModelSet ==
  ASSUME ScreensInv, NEW p \in Proc, NEW m \in Model, Runs(p), SetModel(p, m)
  PROVE  model' \in [Proc -> Model \cup {Null}] /\ \A x \in Proc : Runs(x)' => Runs(x)
BY DEF ScreensInv, SetModel, Runs

\* Who runs is not changed when no model is
LEMMA ModelsStay ==
  ASSUME ScreensInv, model' = model
  PROVE  model' \in [Proc -> Model \cup {Null}] /\ \A x \in Proc : Runs(x)' => Runs(x)
BY DEF ScreensInv, Runs

\* A step of the screens only
LEMMA ScreenStep ==
  ASSUME FilesInv, NEW p \in Proc, UNCHANGED files,
         \A x \in Proc : Runs(x)' => Runs(x), ScreensInv'
  PROVE  TerminalsInv' /\ OneEntryChanges
<1>1. disk' = disk
  BY DEF files
<1> QED BY <1>1, FilesUnchanged, NothingChanges DEF TerminalsInv

\* The provider of a model in use is built in
LEMMA ProvidersInUse ==
  ASSUME FilesAssumption, ScreensInv, NEW p \in Proc, Runs(p)
  PROVE  ProviderOf(p) \in Provider
BY DEF FilesAssumption, ScreensInv, Runs, ProviderOf

\* Enter takes a row that the list has
LEMMA ChosenIsListed ==
  ASSUME ScreensInv, NEW p \in Proc, NEW kind \in Selectors, Enter(p, kind)
  PROVE  Chosen(p) \in Rows /\ (kind \in {"login", "logout"} => Chosen(p) \in Provider)
<1> DEFINE l == dialog[p].list
<1>1. /\ dialog[p].kind = kind /\ l.items # <<>>
  BY DEF Enter, Hears, IsEmpty
<1>2. /\ l.items \in Seq(Rows) /\ l.at \in Nat /\ l.at < Len(l.items)
      /\ kind \in {"login", "logout"} =>
           \A i \in 1 .. Len(l.items) : l.items[i] \in Provider
  BY <1>1 DEF ScreensInv, Fine, Dialogs, Lists, WellPlaced, Names
<1> HIDE DEF l
<1>3. l.at + 1 \in 1 .. Len(l.items)
  BY <1>2
<1>4. Chosen(p) = l.items[l.at + 1]
  BY DEF Chosen, GetSelected, l
<1> QED BY <1>2, <1>3, <1>4

\* /model with an id
LEMMA SwitchModelKeeps ==
  ASSUME FilesAssumption, TerminalsAssumption, TerminalsInv, NEW p \in Proc,
         NEW n, SwitchModel(p, n)
  PROVE  TerminalsInv' /\ OneEntryChanges
<1>1. PICK m \in Callable(p) : SetModel(p, m)
  BY DEF SwitchModel
<1>2. m \in Model
  BY DEF Callable
<1>3. Runs(p) /\ UNCHANGED files /\ dialog' = dialog /\ hears' = hears
  BY DEF SwitchModel
<1>4. ScreensInv /\ FilesInv
  BY DEF TerminalsInv
<1>5. model' \in [Proc -> Model \cup {Null}] /\ \A x \in Proc : Runs(x)' => Runs(x)
  BY <1>1, <1>2, <1>3, <1>4, ModelSet
<1>6. hears' \in [Proc -> BOOLEAN]
  BY <1>3, <1>4 DEF ScreensInv
<1>7. ScreensInv'
  BY <1>3, <1>4, <1>5, <1>6, DialogsStay
<1> QED BY <1>3, <1>4, <1>5, <1>7, ScreenStep

\* A step that only gives p another dialog in order
LEMMA OnlyADialog ==
  ASSUME TerminalsInv, NEW p \in Proc, NEW d, Fine(d),
         dialog' = [dialog EXCEPT ![p] = d], UNCHANGED <<files, model, hears>>
  PROVE  TerminalsInv' /\ OneEntryChanges
<1>1. ScreensInv /\ FilesInv
  BY DEF TerminalsInv
<1>2. model' \in [Proc -> Model \cup {Null}] /\ \A x \in Proc : Runs(x)' => Runs(x)
  BY <1>1, ModelsStay
<1>3. hears' \in [Proc -> BOOLEAN]
  BY <1>1 DEF ScreensInv
<1>4. ScreensInv'
  BY <1>1, <1>2, <1>3, DialogChanges
<1>5. UNCHANGED files
  OBVIOUS
<1> QED BY <1>1, <1>2, <1>4, <1>5, ScreenStep

\* /model without one, /login
LEMMA OpensKeep ==
  ASSUME FilesAssumption, TerminalsAssumption, TerminalsInv, NEW p \in Proc, NEW t \in Text,
         OpenModels(p, t) \/ OpenLogin(p)
  PROVE  TerminalsInv' /\ OneEntryChanges
<1>1. ScreensInv /\ Runs(p)
  BY DEF TerminalsInv, OpenModels, OpenLogin
<1>2. CASE OpenModels(p, t)
  <2> DEFINE d == Selector("models", Callable(p), model[p], t)
  <2>1. Callable(p) \in SUBSET Rows /\ model[p] \in Rows \cup {Null} /\ "models" \in Selectors
    BY <1>1 DEF Callable, Rows, ScreensInv, Selectors
  <2>2. Fine(d)
    BY <2>1, SelectorIsFine
  <2>3. dialog' = [dialog EXCEPT ![p] = d] /\ UNCHANGED <<files, model, hears>>
    BY <1>2 DEF OpenModels, Mount
  <2> HIDE DEF d
  <2> QED BY <2>2, <2>3, OnlyADialog
<1>3. CASE OpenLogin(p)
  <2> DEFINE a == KeyDialog(Home, Null, FALSE)
             b == LoginSelector(ProviderOf(p))
             d == IF \E q \in Provider : Provider = {q} THEN a ELSE b
  <2>1. ProviderOf(p) \in Rows \cup {Null} /\ Provider \in SUBSET Rows /\ "login" \in Selectors
    BY <1>1, ProvidersInUse DEF Rows, Selectors
  <2>2. Home \in Provider /\ Nothing \in Text /\ Null \in Rows \cup {Null} /\ FALSE \in BOOLEAN
    BY DEF FilesAssumption
  <2>3. Fine(b)
    BY <2>1, <2>2, SelectorIsFine DEF LoginSelector
  <2>4. Fine(a)
    BY <2>2, PlainDialogs
  <2>5. dialog' = [dialog EXCEPT ![p] = d] /\ UNCHANGED <<files, model, hears>>
    BY <1>3 DEF OpenLogin, Mount
  <2> HIDE DEF a, b
  <2>6. Fine(d)
    BY <2>3, <2>4
  <2> HIDE DEF d
  <2> QED BY <2>5, <2>6, OnlyADialog
<1> QED BY <1>2, <1>3

\* Up and down in a list
LEMMA MovesKeep ==
  ASSUME FilesAssumption, TerminalsAssumption, TerminalsInv, NEW p \in Proc, Up(p) \/ Down(p)
  PROVE  TerminalsInv' /\ OneEntryChanges
<1>1. PICK l \in {MoveUp(dialog[p].list), MoveDown(dialog[p].list)} :
        dialog' = [dialog EXCEPT ![p].list = l] /\ UNCHANGED <<files, model, hears>>
  BY DEF Up, Down
<1>2. Fine(dialog[p]) /\ DOMAIN dialog = Proc
  BY DEF TerminalsInv, ScreensInv
<1>3. dialog[p] \in Dialogs /\ dialog[p].list \in Lists /\ WellPlaced(dialog[p].list)
  BY <1>2 DEF Fine, Dialogs
<1>4. l \in Lists /\ WellPlaced(l) /\ l.items = dialog[p].list.items
  BY <1>3, MovesPlace, SMTT(40)
<1> DEFINE d == [dialog[p] EXCEPT !.list = l]
<1>5. d \in Dialogs /\ d.list = l /\ d.kind = dialog[p].kind /\ d.about = dialog[p].about
      /\ d.offers = dialog[p].offers
  BY <1>3, <1>4 DEF Dialogs
<1>6. dialog' = [dialog EXCEPT ![p] = d]
  BY <1>1, <1>2
<1> HIDE DEF d
<1>7. Fine(d)
  BY <1>2, <1>4, <1>5 DEF Fine, Names
<1> QED BY <1>1, <1>6, <1>7, OnlyADialog

\* Typing into a dialog
LEMMA TypeKeeps ==
  ASSUME FilesAssumption, TerminalsAssumption, TerminalsInv, NEW p \in Proc, NEW t \in Text,
         Type(p, t)
  PROVE  TerminalsInv' /\ OneEntryChanges
<1> DEFINE d == [dialog[p] EXCEPT !.text = t]
           e == IF d.kind = "key" THEN d ELSE Filtered(d)
<1>1. Fine(dialog[p]) /\ dialog[p].kind \in Selectors \cup {"key"}
  BY DEF TerminalsInv, ScreensInv, Type, Hears
<1>2. dialog[p] \in Dialogs
  BY <1>1 DEF Fine
<1>3. /\ d \in Dialogs /\ d.kind = dialog[p].kind /\ d.list = dialog[p].list
      /\ d.about = dialog[p].about /\ d.offers = dialog[p].offers
  BY <1>2 DEF Dialogs
<1>4. dialog' = [dialog EXCEPT ![p] = e] /\ UNCHANGED <<files, model, hears>>
  BY DEF Type
<1> HIDE DEF d
<1>5. Fine(d)
  BY <1>1, <1>3 DEF Fine, Names
<1>6. d.kind # "key" => Fine(Filtered(d))
  BY <1>1, <1>3, <1>5, FilteredIsFine DEF Fine, Names
<1>7. Fine(e)
  BY <1>5, <1>6
<1> HIDE DEF e
<1> QED BY <1>4, <1>7, OnlyADialog

\* Dialogs that end without more
LEMMA CancelKeeps ==
  ASSUME FilesAssumption, TerminalsAssumption, TerminalsInv, NEW p \in Proc,
         Cancel(p) \/ SubmitNothing(p)
  PROVE  TerminalsInv' /\ OneEntryChanges
<1> DEFINE b == LoginSelector(dialog[p].first)
<1>1. PICK d \in {b, NoDialog} : dialog' = [dialog EXCEPT ![p] = d] /\ UNCHANGED <<files, model, hears>>
  BY DEF Cancel, SubmitNothing, RestoreEditor
<1>2. dialog[p].first \in Rows \cup {Null} /\ Provider \in SUBSET Rows
      /\ "login" \in Selectors /\ Nothing \in Text
  BY DEF TerminalsInv, ScreensInv, Fine, Dialogs, Rows, Selectors, FilesAssumption
<1>3. Fine(b)
  BY <1>2, SelectorIsFine DEF LoginSelector
<1> HIDE DEF b
<1>4. Fine(d)
  BY <1>3, PlainDialogs
<1> QED BY <1>1, <1>4, OnlyADialog

\* A provider is chosen, and its key is asked for
LEMMA ChooseLoginKeeps ==
  ASSUME FilesAssumption, TerminalsAssumption, TerminalsInv, NEW p \in Proc, ChooseLogin(p)
  PROVE  TerminalsInv' /\ OneEntryChanges
<1> DEFINE d == KeyDialog(Chosen(p), dialog[p].first, TRUE)
<1>1. ScreensInv /\ Enter(p, "login") /\ "login" \in Selectors
  BY DEF TerminalsInv, ChooseLogin, Selectors
<1>2. Chosen(p) \in Provider
  BY <1>1, ChosenIsListed
<1>3. dialog[p].first \in Rows \cup {Null}
  BY <1>1 DEF ScreensInv, Fine, Dialogs
<1>4. Fine(d)
  BY <1>2, <1>3, PlainDialogs
<1>5. dialog' = [dialog EXCEPT ![p] = d] /\ UNCHANGED <<files, model, hears>>
  BY DEF ChooseLogin
<1> HIDE DEF d
<1> QED BY <1>4, <1>5, OnlyADialog

\* A model is chosen
LEMMA ChooseModelKeeps ==
  ASSUME FilesAssumption, TerminalsAssumption, TerminalsInv, NEW p \in Proc,
         NEW ok \in BOOLEAN, ChooseModel(p, ok)
  PROVE  TerminalsInv' /\ OneEntryChanges
<1>1. ScreensInv /\ FilesInv /\ Runs(p) /\ UNCHANGED files
      /\ dialog' = [dialog EXCEPT ![p] = NoDialog]
  BY DEF TerminalsInv, ChooseModel, Enter, Hears, RestoreEditor
<1>2. model' \in [Proc -> Model \cup {Null}] /\ \A x \in Proc : Runs(x)' => Runs(x)
  <2>1. CASE Chosen(p) \in Callable(p)
    <3>1. SetModel(p, Chosen(p)) /\ Chosen(p) \in Model
      BY <2>1 DEF ChooseModel, Callable
    <3> QED BY <1>1, <3>1, ModelSet
  <2>2. CASE Chosen(p) \notin Callable(p)
    <3>1. model' = model
      BY <2>2 DEF ChooseModel
    <3> QED BY <1>1, <3>1, ModelsStay
  <2> QED BY <2>1, <2>2
<1>3. hears' \in [Proc -> BOOLEAN]
  BY <1>1 DEF ScreensInv, ChooseModel
<1>4. Fine(NoDialog)
  BY PlainDialogs
<1>5. ScreensInv'
  BY <1>1, <1>2, <1>3, <1>4, DialogChanges
<1> QED BY <1>1, <1>2, <1>5, ScreenStep

-----------------------------------------------------------------------------
(* Actions that read or write the files *)

\* A process starts
LEMMA LaunchKeeps ==
  ASSUME FilesAssumption, TerminalsAssumption, TerminalsInv, NEW p \in Proc,
         NEW provider, NEW name, NEW kept, Launch(p, provider, name, kept)
  PROVE  TerminalsInv' /\ OneEntryChanges
<1>1. ScreensInv /\ FilesInv /\ LoadFiles(p) /\ dialog' = dialog /\ hears' = hears
  BY DEF TerminalsInv, Launch
<1>2. PICK m \in Model : model' = [model EXCEPT ![p] = m]
  <2>1. PICK q, n : BuiltIn(q) /\ \E m \in Resolved(q, n) : model' = [model EXCEPT ![p] = m]
    BY DEF Launch
  <2>2. Resolved(q, n) \subseteq Model
    BY <2>1 DEF Resolved, ModelsOf, BuiltIn, FilesAssumption
  <2> QED BY <2>1, <2>2
<1>3. /\ model' \in [Proc -> Model \cup {Null}]
      /\ \A x \in Proc : x # p => (Runs(x)' => Runs(x))
  BY <1>1, <1>2 DEF ScreensInv, Runs
<1>4. FilesInv' /\ OneEntryChanges
  BY <1>1, <1>3, LoadKeepsFiles
<1>5. hears' \in [Proc -> BOOLEAN]
  BY <1>1 DEF ScreensInv
<1>6. ScreensInv'
  BY <1>1, <1>3, <1>5, DialogsStay
<1> QED BY <1>4, <1>6 DEF TerminalsInv

\* A process ends
LEMMA ExitKeeps ==
  ASSUME FilesAssumption, TerminalsAssumption, TerminalsInv, NEW p \in Proc, Exit(p)
  PROVE  TerminalsInv' /\ OneEntryChanges
<1>1. ScreensInv /\ FilesInv /\ ForgetFiles(p) /\ dialog' = [dialog EXCEPT ![p] = NoDialog]
  BY DEF TerminalsInv, Exit, RestoreEditor
<1>2. /\ model' \in [Proc -> Model \cup {Null}] /\ hears' \in [Proc -> BOOLEAN]
      /\ \A x \in Proc : Runs(x)' => Runs(x) /\ x # p
  BY <1>1 DEF ScreensInv, Runs, Exit
<1>3. FilesInv' /\ OneEntryChanges
  BY <1>1, <1>2, ForgetKeepsFiles
<1>4. Fine(NoDialog)
  BY PlainDialogs
<1>5. ScreensInv'
  BY <1>1, <1>2, <1>4, DialogChanges
<1> QED BY <1>3, <1>5 DEF TerminalsInv

\* /logout, and a row of its list
LEMMA LogoutKeeps ==
  ASSUME FilesAssumption, TerminalsAssumption, TerminalsInv, NEW p \in Proc,
         NEW ok \in BOOLEAN, OpenLogout(p, ok) \/ ChooseLogout(p, ok)
  PROVE  TerminalsInv' /\ OneEntryChanges
<1> DEFINE offers == {q \in Provider : copy[p][q] # NoKey}
<1>1. ScreensInv /\ FilesInv /\ Runs(p) /\ model' = model /\ hears' = hears
  BY DEF TerminalsInv, OpenLogout, ChooseLogout, Enter, Hears
<1>2. CASE ChooseLogout(p, ok)
  <2>1. Enter(p, "logout") /\ "logout" \in Selectors
    BY <1>2 DEF ChooseLogout, Selectors
  <2>2. Chosen(p) \in Provider
    BY <1>1, <2>1, ChosenIsListed
  <2>3. PICK q \in Provider : RemoveKeyFor(p, q, ok)
    BY <1>2, <2>2 DEF ChooseLogout
  <2>4. FilesInv' /\ OneEntryChanges
    <3>1. \A x \in Proc : Runs(x)' => Runs(x)
      BY <1>1, ModelsStay
    <3> HIDE DEF offers
    <3> QED BY <1>1, <2>3, <3>1, RemoveKeyKeepsFiles, SMTT(40)
  <2>5. Fine(NoDialog) /\ dialog' = [dialog EXCEPT ![p] = NoDialog]
    BY <1>2, PlainDialogs DEF ChooseLogout, RestoreEditor
  <2>6. model' \in [Proc -> Model \cup {Null}] /\ hears' \in [Proc -> BOOLEAN]
    BY <1>1 DEF ScreensInv
  <2>7. ScreensInv'
    BY <1>1, <2>5, <2>6, DialogChanges
  <2> QED BY <2>4, <2>7 DEF TerminalsInv
<1>3. CASE OpenLogout(p, ok) /\ \E q \in offers : offers = {q}
  <2>1. PICK q \in Provider : RemoveKeyFor(p, q, ok) /\ dialog' = dialog
    BY <1>3 DEF OpenLogout
  <2>2. /\ model' \in [Proc -> Model \cup {Null}] /\ hears' \in [Proc -> BOOLEAN]
        /\ \A x \in Proc : Runs(x)' => Runs(x)
    BY <1>1, ModelsStay DEF ScreensInv
  <2>3. FilesInv' /\ OneEntryChanges
    <3> HIDE DEF offers
    <3> QED BY <1>1, <2>1, <2>2, RemoveKeyKeepsFiles, SMTT(40)
  <2>4. ScreensInv'
    BY <1>1, <2>1, <2>2, DialogsStay
  <2> QED BY <2>3, <2>4 DEF TerminalsInv
<1>4. CASE OpenLogout(p, ok) /\ ~\E q \in offers : offers = {q}
  <2> DEFINE d == Selector("logout", offers, ProviderOf(p), Nothing)
  <2>1. dialog' = [dialog EXCEPT ![p] = d] /\ UNCHANGED <<files, model, hears>>
    BY <1>1, <1>4 DEF OpenLogout, Mount
  <2>2. /\ offers \in SUBSET Rows /\ offers \subseteq Provider /\ "logout" \in Selectors
        /\ ProviderOf(p) \in Rows \cup {Null} /\ Nothing \in Text
    BY <1>1, ProvidersInUse DEF Rows, Selectors, FilesAssumption
  <2>3. Fine(d)
    BY <2>2, SelectorIsFine
  <2> HIDE DEF d
  <2> QED BY <2>1, <2>3, OnlyADialog
<1> QED BY <1>2, <1>3, <1>4

\* /settings and /permissions
LEMMA SettingsKeep ==
  ASSUME FilesAssumption, TerminalsAssumption, TerminalsInv, NEW p \in Proc,
         NEW f \in Fields, NEW v \in Given[f], NEW ok \in BOOLEAN,
         ChangeSetting(p, f, v, ok) \/ ChangePermission(p, v, ok)
  PROVE  TerminalsInv' /\ OneEntryChanges
<1>1. ScreensInv /\ FilesInv /\ Runs(p)
  BY DEF TerminalsInv, ChangeSetting, ChangePermission
<1>2. model' = model /\ hears' = hears /\ dialog' = dialog
  BY DEF ChangeSetting, ChangePermission, terminal
<1>3. /\ model' \in [Proc -> Model \cup {Null}] /\ \A x \in Proc : Runs(x)' => Runs(x)
      /\ hears' \in [Proc -> BOOLEAN]
  BY <1>1, <1>2, ModelsStay DEF ScreensInv
<1>4. FilesInv' /\ OneEntryChanges
  <2>1. CASE ChangeSetting(p, f, v, ok)
    <3>1. SetValue(p, f, v, ok)
      BY <2>1 DEF ChangeSetting
    <3> QED BY <1>1, <1>3, <3>1, SetValueKeepsFiles, SMTT(40)
  <2>2. CASE ChangePermission(p, v, ok)
    <3>1. SetPermission(p, v, ok) /\ v \in Modes
      BY <2>2 DEF ChangePermission
    <3> QED BY <1>1, <1>3, <3>1, SetPermissionKeepsFiles
  <2> QED BY <2>1, <2>2
<1>5. ScreensInv'
  BY <1>1, <1>2, <1>3, DialogsStay
<1> QED BY <1>4, <1>5 DEF TerminalsInv

\* A key is submitted, and the file can be written or not
LEMMA SubmitKeeps ==
  ASSUME FilesAssumption, TerminalsAssumption, TerminalsInv, NEW p \in Proc,
         SubmitKey(p) \/ SubmitKeyFails(p)
  PROVE  TerminalsInv' /\ OneEntryChanges
<1> DEFINE q == dialog[p].about
           t == dialog[p].text
<1>1. ScreensInv /\ FilesInv /\ Runs(p) /\ dialog[p].kind = "key"
  BY DEF TerminalsInv, SubmitKey, SubmitKeyFails, Hears
<1>2. q \in Provider /\ t \in Text
  BY <1>1 DEF ScreensInv, Fine, Dialogs, Names
<1>3. PICK ok \in BOOLEAN : SaveKeyFor(p, q, t, ProviderOf(p), ok)
  BY DEF SubmitKey, SubmitKeyFails
<1>4. model' \in [Proc -> Model \cup {Null}] /\ \A x \in Proc : Runs(x)' => Runs(x)
  <2>1. CASE model' = model
    BY <1>1, <2>1, ModelsStay
  <2>2. CASE SetModel(p, DefaultOf[q])
    <3>1. DefaultOf[q] \in Model
      BY <1>2 DEF FilesAssumption
    <3> QED BY <1>1, <2>2, <3>1, ModelSet
  <2> QED BY <2>1, <2>2, ZenonT(40) DEF SubmitKey, SubmitKeyFails
<1>5. hears' \in [Proc -> BOOLEAN]
  BY <1>1 DEF ScreensInv, SubmitKey, SubmitKeyFails
<1>6. dialog' = dialog \/ dialog' = [dialog EXCEPT ![p] = NoDialog]
  BY DEF SubmitKey, SubmitKeyFails, RestoreEditor
<1> HIDE DEF q, t
<1>7. FilesInv' /\ OneEntryChanges
  BY <1>1, <1>2, <1>3, <1>4, SaveKeyKeepsFiles
<1>8. Fine(NoDialog)
  BY PlainDialogs
<1>9. ScreensInv'
  BY <1>1, <1>4, <1>5, <1>6, <1>8, DialogChanges, DialogsStay
<1> QED BY <1>7, <1>9 DEF TerminalsInv

-----------------------------------------------------------------------------
(* The specification *)

\* The invariant holds when the first process has not yet been started
LEMMA TerminalsStart ==
  ASSUME FilesAssumption, TerminalsAssumption, InitTerminals
  PROVE  TerminalsInv
<1>1. /\ copy = [p \in Proc |-> NoCopy] /\ behind = [p \in Proc |-> {}]
      /\ unsaved = [p \in Proc |-> {}] /\ saves = 0
      /\ model = [p \in Proc |-> Null] /\ dialog = [p \in Proc |-> NoDialog]
      /\ hears = [p \in Proc |-> TRUE]
  BY DEF InitTerminals, InitFiles
<1>2. PICK stored \in Stored, t \in Text \ Blank :
        disk = [e \in Entry |-> IF e \in stored THEN KeyFor(e, t) ELSE NoCopy[e]]
  BY DEF InitTerminals, InitFiles
<1>3. stored \subseteq Provider
  BY DEF FilesAssumption
<1>4. NoCopy \in [Entry -> Value] /\ Tagged(NoCopy) /\ Current(NoCopy)
  BY NoCopyIsFine
<1>5. disk \in [Entry -> Value]
  BY <1>2, <1>3, <1>4, Values
<1>6. \A f \in Fields : disk[f] = NoCopy[f] /\ NoCopy[f] = Default[f]
  BY <1>2, <1>3, Names2 DEF NoCopy
<1>7. Tagged(disk)
  <2> SUFFICES ASSUME NEW q \in Provider, disk[q] # NoKey PROVE disk[q].for = q
    BY DEF Tagged
  <2>1. q \in Entry /\ NoCopy[q] = NoKey
    BY Names2 DEF NoCopy
  <2>2. disk[q] = KeyFor(q, t)
    BY <1>2, <2>1
  <2> QED BY <2>2 DEF KeyFor
<1>8. Current(disk)
  BY <1>4, <1>6, Names2 DEF Current
<1>9. Valid(disk)
  <2>1. /\ disk["default_provider"] = Null /\ disk["default_model"] = Null
        /\ disk["retry_initial_delay"] = 0 /\ disk["retry_max_delay"] = MaxDelay
        /\ disk["tui_permission_mode"] = "ask"
    BY <1>6, Names2 DEF Default
  <2> QED BY <2>1 DEF Valid, FilesAssumption, Delays, Modes
<1>10. FilesInv
  <2>1. FilesTyped
    BY <1>1, <1>4, <1>5 DEF FilesTyped
  <2>2. \A p \in Proc : copy[p] = NoCopy /\ ~Runs(p)
    BY <1>1 DEF Runs
  <2> QED BY <1>4, <1>7, <1>8, <1>9, <2>1, <2>2 DEF FilesInv
<1>11. ScreensInv
  BY <1>1, PlainDialogs DEF ScreensInv
<1> QED BY <1>10, <1>11 DEF TerminalsInv

\* Every action keeps the invariant, and changes one entry
LEMMA TerminalsStep ==
  ASSUME FilesAssumption, TerminalsAssumption, TerminalsInv, NextTerminals
  PROVE  TerminalsInv' /\ OneEntryChanges
<1>1. PICK p \in Proc : Starts(p) \/ Line(p) \/ Key(p)
  BY DEF NextTerminals
<1>2. CASE Starts(p)
  BY <1>2, LaunchKeeps, ExitKeeps DEF Starts
<1>3. CASE Line(p)
  <2>1. \/ \E ok \in BOOLEAN : OpenLogout(p, ok)
        \/ \E ok \in BOOLEAN : \E f \in Fields : \E v \in Given[f] :
              ChangeSetting(p, f, v, ok) \/ ChangePermission(p, v, ok)
        \/ \E n \in Name : SwitchModel(p, n)
        \/ \E t \in Text : OpenModels(p, t) \/ OpenLogin(p)
    BY <1>3 DEF Line, Fields, FilesAssumption
  <2>2. ASSUME NEW ok \in BOOLEAN, OpenLogout(p, ok) PROVE TerminalsInv' /\ OneEntryChanges
    BY <2>2, LogoutKeeps
  <2>3. ASSUME NEW ok \in BOOLEAN, NEW f \in Fields, NEW v \in Given[f],
               ChangeSetting(p, f, v, ok) \/ ChangePermission(p, v, ok)
        PROVE  TerminalsInv' /\ OneEntryChanges
    BY <2>3, SettingsKeep
  <2>4. ASSUME NEW n \in Name, SwitchModel(p, n) PROVE TerminalsInv' /\ OneEntryChanges
    BY <2>4, SwitchModelKeeps
  <2>5. ASSUME NEW t \in Text, OpenModels(p, t) \/ OpenLogin(p)
        PROVE  TerminalsInv' /\ OneEntryChanges
    BY <2>5, OpensKeep
  <2> QED BY <2>1, <2>2, <2>3, <2>4, <2>5
<1>4. CASE Key(p)
  <2>1. \/ Up(p) \/ Down(p) \/ Cancel(p) \/ SubmitNothing(p) \/ ChooseLogin(p)
        \/ \E t \in Text : Type(p, t)
        \/ \E ok \in BOOLEAN : ChooseModel(p, ok) \/ ChooseLogout(p, ok)
        \/ SubmitKey(p) \/ SubmitKeyFails(p)
    BY <1>4 DEF Key
  <2>2. ASSUME NEW t \in Text, Type(p, t) PROVE TerminalsInv' /\ OneEntryChanges
    BY <2>2, TypeKeeps
  <2>3. ASSUME NEW ok \in BOOLEAN, ChooseModel(p, ok) PROVE TerminalsInv' /\ OneEntryChanges
    BY <2>3, ChooseModelKeeps
  <2>4. ASSUME NEW ok \in BOOLEAN, ChooseLogout(p, ok) PROVE TerminalsInv' /\ OneEntryChanges
    BY <2>4, LogoutKeeps
  <2>5. CASE Up(p) \/ Down(p)
    BY <2>5, MovesKeep
  <2>6. CASE Cancel(p) \/ SubmitNothing(p)
    BY <2>6, CancelKeeps
  <2>7. CASE ChooseLogin(p)
    BY <2>7, ChooseLoginKeeps
  <2>8. CASE SubmitKey(p) \/ SubmitKeyFails(p)
    BY <2>8, SubmitKeeps
  <2> QED BY <2>1, <2>2, <2>3, <2>4, <2>5, <2>6, <2>7, <2>8
<1> QED BY <1>1, <1>2, <1>3, <1>4

\* For any number of terminals, providers, models and settings: what the files
\* and the copies hold, and what the dialogs show, stays in order
THEOREM TerminalsInvariant == Spec => []TerminalsInv
<1>1. FilesAssumption /\ TerminalsAssumption
  BY FilesAssumption, TerminalsAssumption
<1>2. InitTerminals => TerminalsInv
  BY <1>1, TerminalsStart
<1>3. TerminalsInv /\ [NextTerminals]_vars => TerminalsInv'
  <2> SUFFICES ASSUME TerminalsInv, [NextTerminals]_vars PROVE TerminalsInv'
    OBVIOUS
  <2>1. CASE NextTerminals
    BY <1>1, <2>1, TerminalsStep
  <2>2. CASE UNCHANGED vars
    <3>1. UNCHANGED files /\ model' = model /\ hears' = hears /\ dialog' = dialog
      BY <2>2 DEF vars, terminal
    <3>2. FilesInv /\ ScreensInv
      BY DEF TerminalsInv
    <3>3. /\ model' \in [Proc -> Model \cup {Null}] /\ \A x \in Proc : Runs(x)' => Runs(x)
          /\ hears' \in [Proc -> BOOLEAN]
      BY <3>1, <3>2, ModelsStay DEF ScreensInv
    <3> QED BY <3>1, <3>2, <3>3, FilesUnchanged, DialogsStay DEF TerminalsInv
  <2> QED BY <2>1, <2>2
<1> QED BY <1>2, <1>3, PTL DEF Spec

\* What a request is sent with carries the provider it goes to
LEMMA KeysFollow ==
  ASSUME FilesAssumption, TerminalsInv
  PROVE  KeysAreTheirProviders
<1>1. \A q \in Provider : disk[q] # NoKey => disk[q].for = q
  BY DEF TerminalsInv, FilesInv, Tagged
<1>2. \A p \in Proc, q \in Provider : copy[p][q] # NoKey => copy[p][q].for = q
  BY DEF TerminalsInv, FilesInv, Tagged
<1>3. ASSUME NEW p \in Proc, Runs(p)
      PROVE  SessionKey(p) = NoKey \/ SessionKey(p).for = ProviderOf(p)
  <2> DEFINE q == ProviderOf(p)
  <2>1. q \in Provider
    BY <1>3, ProvidersInUse DEF TerminalsInv
  <2>2. Environment(q).for = q
    BY DEF Environment, KeyFor
  <2>3. SessionKey(p) = IF disk[q] # NoKey THEN disk[q]
                        ELSE IF q \in EnvKey THEN Environment(q) ELSE NoKey
    BY DEF SessionKey, ApiKeyFor
  <2> HIDE DEF q
  <2>4. SessionKey(p) = NoKey \/ SessionKey(p).for = q
    BY <1>1, <2>1, <2>2, <2>3
  <2> QED BY <2>4 DEF q
<1> QED BY <1>1, <1>2, <1>3 DEF KeysAreTheirProviders

\* The highlighted row of a well placed list is drawn
LEMMA PlacedIsShown ==
  ASSUME TerminalsAssumption, TerminalsInv
  PROVE  HighlightIsShown
<1> SUFFICES ASSUME NEW p \in Proc, ~IsEmpty(dialog[p].list)
             PROVE  /\ dialog[p].list.at \in Shown(dialog[p].list)
                    /\ \/ dialog[p].list.top + dialog[p].list.max <= Len(dialog[p].list.items)
                       \/ dialog[p].list.top = 0
  BY DEF HighlightIsShown
<1>1. dialog[p].list \in Lists /\ WellPlaced(dialog[p].list)
  BY DEF TerminalsInv, ScreensInv, Fine, Dialogs
<1> QED BY <1>1 DEF WellPlaced, Lists, Shown, IsEmpty

\* A key is stored, held and sent only for the provider in whose dialog it was
\* typed; settings.json can be loaded; the highlighted row is drawn
THEOREM TerminalsSound == Spec => []TerminalsAreSound
<1>1. FilesAssumption /\ TerminalsAssumption
  BY FilesAssumption, TerminalsAssumption
<1>2. TerminalsInv => TerminalsAreSound
  BY <1>1, KeysFollow, PlacedIsShown DEF TerminalsAreSound, SettingsFileLoads, TerminalsInv, FilesInv
<1> QED BY <1>2, TerminalsInvariant, PTL

\* A save changes one entry of a file, besides what the process has missed or
\* could not save
THEOREM SavesChangeOne == Spec => SavesChangeOneEntry
<1>1. FilesAssumption /\ TerminalsAssumption
  BY FilesAssumption, TerminalsAssumption
<1>2. TerminalsInv /\ [NextTerminals]_vars => [OneEntryChanges]_vars
  BY <1>1, TerminalsStep
<1> QED BY <1>2, TerminalsInvariant, PTL DEF Spec, SavesChangeOneEntry
================================================================================
