------------------------------- MODULE ModelMap -------------------------------
(***************************************************************************)
(* The model map: src/store/model_map.go, the handlers of                  *)
(* src/handler/console_api.go that change it, ModelMappingPanel of         *)
(* src/web/src/App.tsx that edits it, and the places that use it: the list *)
(* of models (ModelsHandler) and the requests (DoMessagesProxy and the     *)
(* other Do...Proxy functions of src/instance, TranslateToOpenAI of        *)
(* src/anthropic/translate_request.go).                                    *)
(*                                                                         *)
(* Every operation of the store is one critical section of modelMapMu, but *)
(* what a client does takes many of them: its name for a model comes from  *)
(* one lookup in the list, and each attempt of its request looks the name  *)
(* up again, a request for messages twice.  The panel keeps a copy of the  *)
(* map, edits it, and writes the whole copy back.                          *)
(*                                                                         *)
(* A mapping is the model's ID and the ID it is shown with; the display    *)
(* name is text.  Those who use the API send complete mappings; the rows of*)
(* the panel may be incomplete, and saving leaves these out.               *)
(***************************************************************************)
EXTENDS Naturals, Sequences

CONSTANTS
    Ids,          \* model IDs, upstream's and made up
    Models,       \* those upstream has
    Base,         \* Base[i]: i without its date
    MaxMappings,  \* bound on the mappings and on the rows of the panel
    Torn,         \* a file that does not parse
    Incomplete,   \* a row of the panel without one of its IDs
    NoPanel,      \* the panel has not been opened
    None          \* no model

ASSUME ModelMapAssumption ==
    /\ Models \subseteq Ids /\ None \notin Ids
    /\ Base \in [Ids -> Ids] /\ \A i \in Ids : Base[Base[i]] = Base[i]
    /\ MaxMappings \in Nat

Mappings == [copilotId : Models, displayId : Ids]

VARIABLES
    file,     \* model_map.json
    panel,    \* the rows of the panel
    edited,   \* the models whose rows it has changed since it had the file's (history)
    behind,   \* whether the file has changed without it since then (history)
    request,  \* what a client asks for, and where its request is
    changed   \* whether a lookup may differ from the one in its list (history)

clientVars == <<request, changed>>
panelVars == <<panel, edited, behind>>
vars == <<file, panelVars, clientVars>>

UpTo(S) == UNION {[1..n -> S] : n \in 0..MaxMappings}

ASSUME MarksAssumption == Incomplete \notin Mappings /\ Torn \notin UpTo(Mappings)

Steps == {"none", "listed", "limited", "sent"}

TypeOK ==
    /\ file \in UpTo(Mappings) \cup {Torn}
    /\ panel \in UpTo(Mappings \cup {Incomplete}) \cup {NoPanel}
    /\ edited \subseteq Models
    /\ behind \in BOOLEAN
    /\ request \in [at : Steps, origin : Models \cup {None}, name : Ids \cup {None},
                    messages : BOOLEAN, limit : Ids \cup {None}, sent : Ids \cup {None}]
    /\ changed \in BOOLEAN

NoRequest == [at |-> "none", origin |-> None, name |-> None,
              messages |-> FALSE, limit |-> None, sent |-> None]

\* EnsurePaths has written "{}".
Init ==
    /\ file = << >>
    /\ panel = NoPanel /\ edited = {} /\ behind = FALSE
    /\ request = NoRequest /\ changed = FALSE

-----------------------------------------------------------------------------
(* The store *)

Content == IF file = Torn THEN << >> ELSE file

\* readModelMap: a file that cannot be read is an empty map.
Reads == {Content, << >>}

First(s, P(_), default, Of(_)) ==
    LET hits == {i \in DOMAIN s : P(s[i])}
    IN  IF hits = {} THEN default ELSE Of(s[CHOOSE i \in hits : \A j \in hits : i <= j])

ToDisplayID(s, id) == First(s, LAMBDA m : m.copilotId = id, id, LAMBDA m : m.displayId)
ToCopilotID(s, id) == First(s, LAMBDA m : m.displayId = id, id, LAMBDA m : m.copilotId)

(* The file after a write; if it fails, it is as before or torn.           *)
Written(s) == {s, file, Torn}

Noticed ==
    /\ behind' = (behind \/ (panel # NoPanel /\ file' # file))
    /\ changed' = (changed \/ file' # file)

(* Replaces the model's first mapping, or is appended.                     *)
Added(s, m) ==
    LET mine == {i \in DOMAIN s : s[i].copilotId = m.copilotId}
    IN  IF mine = {} THEN Append(s, m)
        ELSE [s EXCEPT ![CHOOSE i \in mine : \A j \in mine : i <= j] = m]

(* What is left of s when only its members in S stay: both the store and   *)
(* the panel filter lists.                                                 *)
Kept(s, S) ==
    LET kept[n \in 0 .. Len(s)] ==
            IF n = 0 THEN << >>
            ELSE IF s[n] \in S THEN Append(kept[n - 1], s[n]) ELSE kept[n - 1]
    IN  kept[Len(s)]

Removed(s, id) == Kept(s, {m \in Mappings : m.copilotId # id})

AddModelMapping(s, m) ==
    /\ Len(Added(s, m)) <= MaxMappings
    /\ file' \in Written(Added(s, m))
    /\ Noticed
    /\ UNCHANGED <<panel, edited, request>>

DeleteModelMapping(s, id) ==
    /\ file' \in Written(Removed(s, id))
    /\ Noticed
    /\ UNCHANGED <<panel, edited, request>>

-----------------------------------------------------------------------------
(* ModelMappingPanel *)

(* fetchMappings, after a reload of the page too.                          *)
FetchMappings ==
    /\ \E s \in Reads : panel' = s /\ behind' = (s # Content)
    /\ edited' = {}
    /\ UNCHANGED <<file, clientVars>>

\* The model a row is about.
About(row) == IF row = Incomplete THEN {} ELSE {row.copilotId}

AddRow ==
    /\ panel # NoPanel /\ Len(panel) < MaxMappings
    /\ panel' = Append(panel, Incomplete)
    /\ UNCHANGED <<file, edited, behind, clientVars>>

UpdateRow(i, row) ==
    /\ panel' = [panel EXCEPT ![i] = row]
    /\ edited' = edited \cup About(panel[i]) \cup About(row)
    /\ UNCHANGED <<file, behind, clientVars>>

(* Mutant: the row after it goes.                                          *)
RemoveRow_Next(i) ==
    /\ panel' = SubSeq(panel, 1, i) \o SubSeq(panel, i + 2, Len(panel))
    /\ edited' = edited \cup About(panel[i])
    /\ UNCHANGED <<file, behind, clientVars>>

RemoveRow(i) ==
    /\ panel' = SubSeq(panel, 1, i - 1) \o SubSeq(panel, i + 1, Len(panel))
    /\ edited' = edited \cup About(panel[i])
    /\ UNCHANGED <<file, behind, clientVars>>

EditRow ==
    /\ panel # NoPanel
    /\ \E i \in DOMAIN panel :
          RemoveRow(i) \/ \E row \in Mappings \cup {Incomplete} : UpdateRow(i, row)

Valid(rows) == Kept(rows, Mappings)

(* saveMappings and SetModelMappings: the whole copy is written, and the   *)
(* answer becomes the copy.  Edits made between the two are overwritten by *)
(* the answer, so there is nothing to keep of them.                        *)
SaveMappings ==
    /\ panel # NoPanel
    /\ file' = Valid(panel)
    /\ panel' = Valid(panel)
    /\ edited' = {}
    /\ behind' = FALSE
    /\ changed' = (changed \/ file' # file)
    /\ UNCHANGED request

(* handleSetModelMap answers 500, or its answer is lost; the copy stays.    *)
SaveFails ==
    /\ panel # NoPanel
    /\ file' \in Written(Valid(panel))
    /\ Noticed
    /\ UNCHANGED <<panel, edited, request>>

-----------------------------------------------------------------------------
(* A client *)

(* ModelsHandler, one lookup per model; the client will use the name of m. *)
ListModels(m) ==
    \E s \in Reads :
        /\ request' = [NoRequest EXCEPT !.at = "listed", !.origin = m, !.name = ToDisplayID(s, m)]
        /\ changed' = (s # Content)
        /\ UNCHANGED <<file, panelVars>>

(* Mutant: the limit is looked up for the name as it came.                 *)
ModelOfMessages_AsSent(s, name) == Base[name]

\* For messages the name's date goes, after the lookup.
ModelOfMessages(s, name) == Base[ToCopilotID(s, name)]

(* An attempt at /v1/messages finds the model's limit ...                  *)
LookupMaxOutputTokens ==
    /\ request.at = "listed" \/ (request.at = "sent" /\ request.messages)
    /\ \E s \in Reads :
          /\ request' = [request EXCEPT !.at = "limited", !.messages = TRUE,
                                        !.limit = ModelOfMessages(s, request.name)]
          /\ changed' = (changed \/ s # Content)
    /\ UNCHANGED <<file, panelVars>>

(* ... unless the client has set max_tokens, and looks the name up again   *)
(* for the request it sends.                                               *)
TranslateToOpenAI ==
    /\ request.at \in {"listed", "limited"}
    /\ \E s \in Reads :
          /\ request' = [request EXCEPT !.at = "sent", !.messages = TRUE,
                                        !.sent = ModelOfMessages(s, request.name)]
          /\ changed' = (changed \/ s # Content)
    /\ UNCHANGED <<file, panelVars>>

(* An attempt at completions, responses or embeddings.                     *)
SendOther ==
    /\ request.at \in {"listed", "sent"} /\ ~request.messages
    /\ \E s \in Reads :
          /\ request' = [request EXCEPT !.at = "sent", !.sent = ToCopilotID(s, request.name)]
          /\ changed' = (changed \/ s # Content)
    /\ UNCHANGED <<file, panelVars>>

-----------------------------------------------------------------------------
Console ==
    \/ \E s \in Reads : \/ \E m \in Mappings : AddModelMapping(s, m)
                        \/ \E id \in Models : DeleteModelMapping(s, id)
    \/ FetchMappings \/ AddRow \/ EditRow \/ SaveMappings \/ SaveFails

Client ==
    \/ \E m \in Models : ListModels(m)
    \/ LookupMaxOutputTokens \/ TranslateToOpenAI \/ SendOther

Next == Console \/ Client

Spec == Init /\ [][Next]_vars

-----------------------------------------------------------------------------
(* Properties *)

\* No two models are shown with one name.
NamesDiffer ==
    LET shown == Content
    IN  /\ \A i, j \in DOMAIN shown : shown[i].displayId = shown[j].displayId => i = j
        /\ \A i \in DOMAIN shown :
              shown[i].displayId \in Models =>
                  \E j \in DOMAIN shown : shown[j].copilotId = shown[i].displayId

(* A client that asks for a model by the name it was listed with gets that *)
(* model, and that model's limit, at every endpoint and in every attempt   *)
(* (README.md:23) - if the names differ, the map has been read and has not *)
(* changed since the list was made and, for messages, the model's own ID   *)
(* is not one that is cut as if it ended in a date.                        *)
ListedModelIsServed ==
    request.at = "sent" /\ ~changed /\ NamesDiffer
        /\ (request.messages => Base[request.origin] = request.origin)
    => request.sent = request.origin /\ request.limit \in {None, request.origin}

(* The panel writes the whole map (App.tsx:709), but renames no model whose*)
(* rows were left alone, whatever was edited before it was saved - unless  *)
(* the map has changed, or could not be read, behind its back.             *)
SaveKeepsTheRest ==
    [][SaveMappings /\ ~behind =>
           \A m \in Models \ edited :
               ToDisplayID(Content', m) = ToDisplayID(Content, m)]_vars

-----------------------------------------------------------------------------
(* What is said of the map, and does not hold (the README has the          *)
(* counterexamples).                                                       *)

(* "Bidirectional mapping" (README.md:23): what a model is shown as leads  *)
(* back to it, whatever the map.                                           *)
Bidirectional == \A m \in Models : ToCopilotID(Content, ToDisplayID(Content, m)) = m

\* handleGetCopilotModels: of several mappings the last.
ShownID(m) ==
    LET hits == {i \in DOMAIN Content : Content[i].copilotId = m}
    IN  IF hits = {} THEN m ELSE Content[CHOOSE i \in hits : \A j \in hits : j <= i].displayId

(* The console shows the name a model is listed with                       *)
(* (console_api.go:553).                                                   *)
ConsoleShowsNames == \A m \in Models : ShownID(m) = ToDisplayID(Content, m)
=============================================================================
