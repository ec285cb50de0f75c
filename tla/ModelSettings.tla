---------------------------- MODULE ModelSettings ----------------------------
(***************************************************************************)
(* Providers and models (llm/settings.go, models.go, client.go): two       *)
(* files, the pair of them that the client works with, and the pair that a *)
(* run has pinned.                                                         *)
(*                                                                         *)
(* A model is saved with options made for one protocol, and it is asked in *)
(* the protocol it is routed to or else in its provider's.  A catalogue    *)
(* that comes with the program knows providers and models; its models are  *)
(* in the list unless models.json overrides or hides them.  The revision   *)
(* of a file stands for its content, as far as it is told apart here, and  *)
(* an entry of config.yaml without a protocol for one with the catalogue's. *)
(***************************************************************************)
EXTENDS Naturals

CONSTANTS Providers, Models, Protocols,
          Of,         \* [Models -> their provider]
          CatalogProtocol,  \* [Providers -> their protocol in the catalogue, or None]
          Catalog,    \* [Models -> the catalogue's entry, or None]
          Formats,    \* providers whose options the catalogue gives a format
          Editors,    \* forms, each with what it has seen
          Runs,
          MaxSaves,   \* bound: calls that go on to write
          MaxEdits,   \* bound: changes of the files by hand
          MaxFaults,  \* bound: writes and reloads that fail, and restarts
          None

VARIABLES
  config,    \* config.yaml: [Providers -> protocol]
  models,    \* models.json over the catalogue: [Models -> entry]
  current,   \* Client.current
  editMu,    \* who holds Client.editMu
  form,      \* [Editors -> the form and its call]
  pinned,    \* [Runs -> the pair that Pin copied]
  stale,     \* may current differ from the files: an edit by hand, a failed reload
  byHand,    \* history: the providers that were edited by hand, or a model of theirs
  settingSaves, handEdits, modelFaults

modelFiles == <<config, models>>
modelVars == <<modelFiles, current, editMu, form, pinned, stale, byHand, settingSaves, handEdits, modelFaults>>

\* Options for one protocol, and the protocol that the model is routed to.
Entries == [made : Protocols, routed : Protocols \cup {None}]

Pair == [config |-> config, models |-> models]
NoPair == [config |-> [p \in Providers |-> None], models |-> [m \in Models |-> None]]
Configs == [Providers -> Protocols \cup {None}]
Lists == [Models -> Entries \cup {None}]
NoForm == [at |-> "none", seen |-> NoPair, config |-> NoPair.config,
           models |-> NoPair.models, both |-> FALSE]

TypeOK ==
  /\ config \in Configs /\ models \in Lists
  /\ current.config \in Configs /\ current.models \in Lists
  /\ editMu \in Editors \cup {None}
  /\ \A e \in Editors : form[e].at \in {"none", "open", "models", "config", "reload"}
  /\ stale \in BOOLEAN /\ byHand \subseteq Providers
  /\ settingSaves \in 0..MaxSaves /\ handEdits \in 0..MaxEdits /\ modelFaults \in 0..MaxFaults

Init ==
  /\ config = NoPair.config /\ models = Catalog
  /\ current = Pair
  /\ editMu = None
  /\ form = [e \in Editors |-> NoForm]
  /\ pinned = [r \in Runs |-> NoPair]
  /\ stale = FALSE /\ byHand = {}
  /\ settingSaves = 0 /\ handEdits = 0 /\ modelFaults = 0

-----------------------------------------------------------------------------
(* Protocols.                                                              *)

\* protocolFor: that of a provider, which the catalogue has too.
ProtocolFor(p, cfg) == IF cfg[p] # None THEN cfg[p] ELSE CatalogProtocol[p]

\* modelProtocol: what a model of the list is asked in.
ModelProtocol(m, pair) == IF pair.models[m].routed # None THEN pair.models[m].routed
                          ELSE ProtocolFor(Of[m], pair.config)

\* settingsProtocol: what options are made for that the user writes down.
SettingsProtocol(p, cfg) == IF p \in Formats THEN CatalogProtocol[p] ELSE ProtocolFor(p, cfg)

-----------------------------------------------------------------------------
(* The forms.                                                              *)

\* ReadSettings: it also reloads.
ReadSettings(e) ==
  /\ form[e].at = "none" /\ editMu = None
  /\ current' = Pair /\ stale' = FALSE
  /\ form' = [form EXCEPT ![e] = [NoForm EXCEPT !.at = "open", !.seen = Pair]]
  /\ UNCHANGED <<modelFiles, editMu, pinned, byHand, settingSaves, handEdits, modelFaults>>

Open(e) == form[e].at = "open" /\ editMu = None

\* A call that is refused changes nothing, not even the catalogue in memory.
Refused(e) ==
  /\ form' = [form EXCEPT ![e] = NoForm]
  /\ UNCHANGED <<modelFiles, current, editMu, pinned, stale, byHand, settingSaves, handEdits, modelFaults>>

\* It goes on to write: models.json, config.yaml, or both in this order.
WriteOrder_ConfigFirst == "config"
WriteOrder == "models"

Write(e, cfg, list, first, both) ==
  /\ settingSaves < MaxSaves
  /\ settingSaves' = settingSaves + 1
  /\ editMu' = e
  /\ form' = [form EXCEPT ![e] = [NoForm EXCEPT !.at = first, !.config = cfg,
                                                !.models = list, !.both = both]]
  /\ UNCHANGED <<modelFiles, current, pinned, stale, byHand, handEdits, modelFaults>>

Used(p) == \E m \in Models : Of[m] = p /\ models[m] # None

\* The protocol of a provider that has models stays.
MayChange_Always(p, protocol) == TRUE
MayChange(p, protocol) == ProtocolFor(p, config) \in {None, protocol} \/ ~Used(p)

SaveProvider(e, p, protocol) ==
  /\ Open(e)
  /\ IF form[e].seen.config # config \/ ~MayChange(p, protocol)
     THEN Refused(e)
     ELSE Write(e, [config EXCEPT ![p] = protocol], models, "config", FALSE)

\* The catalogue's entry as it is, or what the user wrote down: for the
\* protocol chosen, the one the catalogue routes to, or the provider's.
Entry(m, manual, chosen) ==
  LET routed == IF chosen # None \/ Catalog[m] = None THEN chosen ELSE Catalog[m].routed
  IN  IF ~manual /\ Catalog[m] # None THEN Catalog[m]
      ELSE [routed |-> routed,
            made |-> IF routed # None THEN routed ELSE SettingsProtocol(Of[m], config)]

\* A new model, or one that exists.
SaveModel(e, m, new, manual, chosen) ==
  /\ Open(e)
  /\ IF \/ form[e].seen.models # models
        \/ config[Of[m]] = None
        \/ new # (models[m] = None)
     THEN Refused(e)
     ELSE Write(e, config, [models EXCEPT ![m] = Entry(m, manual, chosen)], "models", FALSE)

DeleteModel(e, m) ==
  /\ Open(e)
  /\ IF form[e].seen.models # models \/ models[m] = None
     THEN Refused(e)
     ELSE Write(e, config, [models EXCEPT ![m] = None], "models", FALSE)

\* With its models; those of the catalogue are back.
DeleteProvider(e, p) ==
  /\ Open(e)
  /\ IF form[e].seen # Pair \/ (config[p] = None /\ ~Used(p))
     THEN Refused(e)
     ELSE Write(e, [config EXCEPT ![p] = None],
                [m \in Models |-> IF Of[m] = p THEN Catalog[m] ELSE models[m]], WriteOrder, TRUE)

\* The other file, when both are written and this was the first.
Next2(e) == IF form[e].both /\ form[e].at = WriteOrder
            THEN IF WriteOrder = "models" THEN "config" ELSE "models"
            ELSE "reload"

Put(e) == CASE form[e].at = "models" -> models' = form[e].models /\ UNCHANGED config
            [] form[e].at = "config" -> config' = form[e].config /\ UNCHANGED models

Writes(e) ==
  /\ form[e].at \in {"models", "config"}
  /\ Put(e)
  /\ form' = [form EXCEPT ![e].at = Next2(e)]
  /\ UNCHANGED <<current, editMu, pinned, stale, byHand, settingSaves, handEdits, modelFaults>>

\* Files.Write fails, before or after the file was replaced: what the files
\* hold now is read again.
AfterFailure_Return == "none"
AfterFailure == "reload"

WriteFails(e) ==
  /\ form[e].at \in {"models", "config"} /\ modelFaults < MaxFaults
  /\ modelFaults' = modelFaults + 1
  /\ Put(e) \/ UNCHANGED modelFiles
  /\ IF AfterFailure = "reload"
     THEN form' = [form EXCEPT ![e].at = "reload"] /\ UNCHANGED editMu
     ELSE form' = [form EXCEPT ![e] = NoForm] /\ editMu' = None
  /\ UNCHANGED <<current, pinned, stale, byHand, settingSaves, handEdits>>

\* reloadLocked, and the call returns; the form may be used again.
Reload(e) ==
  /\ form[e].at = "reload"
  /\ \/ /\ current' = Pair /\ stale' = FALSE /\ UNCHANGED modelFaults
     \/ /\ modelFaults < MaxFaults
        /\ modelFaults' = modelFaults + 1
        /\ stale' = TRUE /\ UNCHANGED current
  /\ editMu' = None
  /\ form' = [form EXCEPT ![e] = NoForm]
  /\ UNCHANGED <<modelFiles, pinned, byHand, settingSaves, handEdits>>

-----------------------------------------------------------------------------
\* A run works with the pair it began with.
Pin(r) ==
  /\ pinned[r] # current
  /\ pinned' = [pinned EXCEPT ![r] = current]
  /\ UNCHANGED <<modelFiles, current, editMu, form, stale, byHand, settingSaves, handEdits, modelFaults>>

\* Somebody edits config.yaml or models.json: a provider or a model is added,
\* changed or removed.
Edit(p) ==
  /\ handEdits < MaxEdits
  /\ handEdits' = handEdits + 1 /\ byHand' = byHand \cup {p}
  /\ stale' = TRUE
  /\ UNCHANGED <<current, editMu, form, pinned, settingSaves, modelFaults>>

EditConfig(p, protocol) ==
  /\ config[p] # protocol /\ config' = [config EXCEPT ![p] = protocol]
  /\ UNCHANGED models
  /\ Edit(p)

EditModels(m, entry) ==
  /\ models[m] # entry /\ models' = [models EXCEPT ![m] = entry]
  /\ UNCHANGED config
  /\ Edit(Of[m])

\* New reads the files; the forms of the clients are still open.
Restart ==
  /\ modelFaults < MaxFaults
  /\ modelFaults' = modelFaults + 1
  /\ current' = Pair /\ stale' = FALSE
  /\ editMu' = None
  /\ form' = [e \in Editors |-> IF form[e].at = "open" THEN form[e] ELSE NoForm]
  /\ pinned' = [r \in Runs |-> NoPair]
  /\ UNCHANGED <<modelFiles, byHand, settingSaves, handEdits>>

-----------------------------------------------------------------------------
Next == \/ \E e \in Editors :
             \/ ReadSettings(e) \/ Writes(e) \/ WriteFails(e) \/ Reload(e)
             \/ \E p \in Providers : DeleteProvider(e, p)
             \/ \E p \in Providers, protocol \in Protocols : SaveProvider(e, p, protocol)
             \/ \E m \in Models : DeleteModel(e, m)
             \/ \E m \in Models, new, manual \in BOOLEAN, chosen \in Protocols \cup {None} :
                  SaveModel(e, m, new, manual, chosen)
        \/ \E r \in Runs : Pin(r)
        \/ \E p \in Providers, protocol \in Protocols \cup {None} : EditConfig(p, protocol)
        \/ \E m \in Models, entry \in Entries \cup {None} : EditModels(m, entry)
        \/ Restart

Spec == Init /\ [][Next]_modelVars

-----------------------------------------------------------------------------
(* Properties.                                                             *)

\* A model is asked in the protocol that its options were made for, and a
\* model of a provider that the catalogue does not know has its provider:
\* unless one of the two was edited by hand, or the provider of the catalogue
\* is used with another protocol than the catalogue's, to which entries of the
\* catalogue come as they are.
Fits(pair) == \A m \in Models :
  /\ pair.models[m] # None /\ Of[m] \notin byHand
  /\ CatalogProtocol[Of[m]] \in {None, pair.config[Of[m]]}
  => pair.config[Of[m]] # None /\ pair.models[m].made = ModelProtocol(m, pair)

\* So it is on the disk, in the client and in every run, also between two
\* writes, after one that failed and after a restart (llm/settings.go:203-243,
\* 356-416, 445-499).
ModelsFit == Fits(Pair) /\ Fits(current) /\ \A r \in Runs : Fits(pinned[r])

\* When no call is under way, the client works with what the files hold, also
\* after a write that failed (llm/settings.go:238-242, 445).
CurrentIsDisk == editMu = None /\ ~stale => current = Pair
=============================================================================
