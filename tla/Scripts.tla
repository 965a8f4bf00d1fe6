------------------------------ MODULE Scripts ------------------------------
(***************************************************************************)
(* The Lua scripts of the debugger: the records, their compilation and     *)
(* runs, the overlays they draw, and the client that follows both: the     *)
(* records by a revision number, the overlays by what has changed since it *)
(* asked last.                                                             *)
(*                                                                         *)
(* A run is what it draws, whether it fails and nothing else: what a       *)
(* script reads, writes to its globals or asks to be stopped for is left   *)
(* out.  All of it happens on the emulation thread.                        *)
(***************************************************************************)
EXTENDS Integers, Sequences, FiniteSets

CONSTANTS
  MaxRecords,    \* MAX_RECORDS
  LastId,        \* the largest script id
  MaxPerScript,  \* MAX_OVERLAYS_PER_SCRIPT
  MaxTotal,      \* MAX_OVERLAYS_TOTAL
  Texts,         \* bound: names and paths of scripts, pairs
  Draws          \* bound: what a run draws, sequences of items and pictures

ASSUME ScriptsAssumption ==
  /\ {MaxRecords, MaxPerScript, MaxTotal} \subseteq Nat \ {0} /\ LastId \in Nat
  /\ \A draws \in Draws : Len(draws) \in Nat

VARIABLES
  scripts,   \* m_scripts, by id
  nextId,    \* m_nextScriptId; LastId + 1 stands for m_idsExhausted
  overlays,  \* m_overlays, by script and item
  checking,  \* the scripts that Check() has yet to run
  known,     \* ghost: the records a client has, while m_updates is what it was then
  shown      \* ghost: the overlays the client shows

scriptVars == <<scripts, nextId, overlays, checking, known, shown>>

Compilations == {"compiled", "error"}
Runtimes == {"never", "succeeded", "error", "limit"}    \* "limit": the error of too many overlays
Outdated == [d \in {} |-> d]                            \* m_updates has moved

Removed(f, gone) == [k \in DOMAIN f \ gone |-> f[k]]
Of(id, f) == {k \in DOMAIN f : k[1] = id}
With(f, k, v) == [x \in DOMAIN f \cup {k} |-> IF x = k THEN v ELSE f[x]]

-----------------------------------------------------------------------------
(* Compiling anew forgets how the last run went. *)
Compiled(script, how) == [script EXCEPT !.compilation = how, !.runtime = "never"]

StoreOverlay(all, id, item, picture) ==
  CASE <<id, item>> \in DOMAIN all ->
         IF all[<<id, item>>].picture = picture THEN [ok |-> TRUE, all |-> all]
         ELSE [ok |-> TRUE, all |-> With(all, <<id, item>>, [picture |-> picture, updated |-> TRUE])]
    [] <<id, item>> \notin DOMAIN all ->
         IF Cardinality(Of(id, all)) >= MaxPerScript \/ Cardinality(DOMAIN all) >= MaxTotal
         THEN [ok |-> FALSE, all |-> all]
         ELSE [ok |-> TRUE, all |-> With(all, <<id, item>>, [picture |-> picture, updated |-> TRUE])]

(* The first overlay too many ends the run. *)
Drawn(id, draws) ==
  LET after[i \in 0..Len(draws)] ==
        IF i = 0 THEN [ok |-> TRUE, all |-> overlays]
        ELSE IF ~after[i - 1].ok THEN after[i - 1]
        ELSE StoreOverlay(after[i - 1].all, id, draws[i][1], draws[i][2])
  IN  after[Len(draws)]

RunScript(id, draws, fails) ==
  LET run == Drawn(id, draws)
      how == IF ~run.ok THEN "limit" ELSE IF fails THEN "error" ELSE "succeeded"
  IN  /\ scripts[id].compilation = "compiled"
      /\ overlays' = run.all
      /\ scripts' = [scripts EXCEPT ![id].runtime = how]
      /\ known' = IF scripts[id].runtime = how THEN known ELSE Outdated
      /\ UNCHANGED <<nextId, shown>>

-----------------------------------------------------------------------------
(* Requests; one that throws changes nothing.  The client that asks for an *)
(* overlay's end stops showing it.                                         *)
Request == checking = {} /\ UNCHANGED checking
RemoveOverlays(ids) ==
  LET gone(f) == UNION {Of(id, f) : id \in ids}
  IN  overlays' = Removed(overlays, gone(overlays)) /\ shown' = Removed(shown, gone(shown))

Add(text, active, how) ==
  /\ Request /\ Cardinality(DOMAIN scripts) < MaxRecords /\ nextId <= LastId
  /\ scripts' = With(scripts, nextId,
       [text |-> text, active |-> active, compilation |-> how, runtime |-> "never"])
  /\ nextId' = nextId + 1 /\ known' = Outdated
  /\ UNCHANGED <<overlays, shown>>

Edit(id, text, active, how) ==
  LET old == scripts[id]
      new == [old EXCEPT !.text = text, !.active = active]
  IN  /\ Request
      /\ scripts' = [scripts EXCEPT ![id] = IF text[2] # old.text[2] THEN Compiled(new, how) ELSE new]
      /\ IF active THEN UNCHANGED <<overlays, shown>> ELSE RemoveOverlays({id})
      /\ known' = IF new = old THEN known ELSE Outdated
      /\ UNCHANGED nextId

Compile(id, how) ==
  /\ Request
  /\ scripts' = [scripts EXCEPT ![id] = Compiled(@, how)] /\ known' = Outdated
  /\ UNCHANGED <<nextId, overlays, shown>>

RunOnce(id, draws, fails) == Request /\ RunScript(id, draws, fails)

DisableAll(ids) ==
  /\ Request /\ RemoveOverlays(ids)
  /\ scripts' = [id \in DOMAIN scripts |->
                   IF id \in ids THEN [scripts[id] EXCEPT !.active = FALSE] ELSE scripts[id]]
  /\ known' = IF \E id \in ids : scripts[id].active THEN Outdated ELSE known
  /\ UNCHANGED nextId
Disable(id) == DisableAll({id})

DeleteAll(ids) ==
  /\ Request /\ ids # {} /\ RemoveOverlays(ids)
  /\ scripts' = Removed(scripts, ids) /\ known' = Outdated
  /\ UNCHANGED nextId
Del(id) == DeleteAll({id})

GetAll ==
  /\ Request /\ known' = scripts /\ UNCHANGED <<scripts, nextId, overlays, shown>>

(* Fetching takes the marks off. *)
GetOverlayUpdates ==
  LET new == {k \in DOMAIN overlays : overlays[k].updated}
  IN  /\ Request
      /\ overlays' = [k \in DOMAIN overlays |-> [overlays[k] EXCEPT !.updated = FALSE]]
      /\ shown' = [k \in DOMAIN shown \cup new |-> IF k \in new THEN overlays[k].picture ELSE shown[k]]
      /\ UNCHANGED <<scripts, nextId, known>>

(* A new client shows nothing and knows nothing; its session begins with   *)
(* MarkAllOverlaysUpdated().                                               *)
NewClientUnmarked ==   \* mutant: it gets what is drawn from now on
  /\ Request /\ shown' = [k \in {} |-> k] /\ known' = Outdated
  /\ UNCHANGED <<scripts, nextId, overlays>>
NewClient ==
  /\ Request
  /\ overlays' = [k \in DOMAIN overlays |-> [overlays[k] EXCEPT !.updated = TRUE]]
  /\ shown' = [k \in {} |-> k] /\ known' = Outdated
  /\ UNCHANGED <<scripts, nextId>>

-----------------------------------------------------------------------------
(* After every instruction of a debugged run, Check() runs the scripts one *)
(* by one, in any order; no request comes between.  One that has failed is *)
(* not run again.                                                          *)
Runnable(script) ==
  script.active /\ script.compilation = "compiled" /\ script.runtime \notin {"error", "limit"}
Check ==
  /\ checking = {} /\ checking' = {id \in DOMAIN scripts : Runnable(scripts[id])}
  /\ UNCHANGED <<scripts, nextId, overlays, known, shown>>
CheckRuns(id, draws, fails) ==
  /\ id \in checking /\ checking' = checking \ {id} /\ RunScript(id, draws, fails)

ScriptsInit ==
  /\ scripts = [id \in {} |-> id] /\ nextId = 0 /\ overlays = [k \in {} |-> k]
  /\ checking = {} /\ known = Outdated /\ shown = [k \in {} |-> k]
ScriptsNext ==
  \/ \E text \in Texts, active \in BOOLEAN, how \in Compilations :
       Add(text, active, how) \/ \E id \in DOMAIN scripts : Edit(id, text, active, how)
  \/ \E id \in DOMAIN scripts :
       \/ Disable(id) \/ Del(id)
       \/ \E how \in Compilations : Compile(id, how)
       \/ \E draws \in Draws, fails \in BOOLEAN : RunOnce(id, draws, fails) \/ CheckRuns(id, draws, fails)
  \/ DisableAll(DOMAIN scripts) \/ DeleteAll(DOMAIN scripts)
  \/ GetAll \/ GetOverlayUpdates \/ NewClient \/ Check

-----------------------------------------------------------------------------
ScriptsTypeOK ==
  /\ DOMAIN scripts \subseteq 0..LastId /\ Cardinality(DOMAIN scripts) <= MaxRecords
  /\ \A id \in DOMAIN scripts :
       /\ scripts[id].text \in Texts /\ scripts[id].active \in BOOLEAN
       /\ scripts[id].compilation \in Compilations /\ scripts[id].runtime \in Runtimes
  /\ nextId \in 0..(LastId + 1) /\ Cardinality(DOMAIN overlays) <= MaxTotal
  /\ \A k \in DOMAIN overlays : overlays[k].updated \in BOOLEAN
  /\ checking \subseteq DOMAIN scripts

(* A client that polls sees what there is: while the revision has not      *)
(* moved, the records are those it fetched, how their runs went included;  *)
(* an overlay it does not show as it was drawn last is still to be         *)
(* fetched; and it shows none that is gone.  So it is for a new client,    *)
(* whatever scripts run, fail, are edited, disabled or deleted meanwhile   *)
(* (m_updates, StoreOverlay(), GetOverlayUpdatesJson(), RemoveOverlays()). *)
ClientInSync ==
  /\ known # Outdated => known = scripts
  /\ \A k \in DOMAIN overlays :
       ~overlays[k].updated => k \in DOMAIN shown /\ shown[k] = overlays[k].picture
  /\ DOMAIN shown \subseteq DOMAIN overlays
  /\ \A k \in DOMAIN overlays : k[1] \in DOMAIN scripts
=============================================================================
