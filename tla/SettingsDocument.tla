-------------------------- MODULE SettingsDocument --------------------------
(***************************************************************************)
(* Workspace.settingsJson, one JSON document with a key for each feature,  *)
(* and the requests that change a key of it: those that merge the key in   *)
(* one statement, and those that read the document and write it back, the  *)
(* provisioning script among them.  The document of one workspace.         *)
(* The names every specification has say whose they are here: the          *)
(* workspace's seats and settings are proved about in one module.          *)
(***************************************************************************)
EXTENDS Integers, FiniteSets

CONSTANTS
    Writers,      \* requests and scripts that may be at work at once
    MaxRequests,  \* bound: changes asked for
    MaxFaults     \* bound: failed calls and killed requests

ASSUME WriterAssumption == IsFiniteSet(Writers)
ASSUME BoundAssumption == MaxRequests \in Nat /\ MaxFaults \in Nat

\* secretHash and autoAck are the two parts of the key leadIngest.
Audited == {"secret", "autoAck", "apiKeys"}
Merged == {"pipeline", "whatsappPhoneId"}
Fields == Audited \cup Merged \cup {"rera"}

\* The value of a field is the number of the change it comes from; that of
\* apiKeys is a list of keys, each from a change of its own.
Doc == [Fields -> SUBSET Nat]
Unset == [f \in Fields |-> {}]

VARIABLES
    doc,       \* settingsJson
    timeline,  \* timeline[f]: activities that tell of a change of f
    writer,
    written,   \* history: the fields, had their changes been the only ones
    count,     \* history: changes of each field
    raced,     \* history: fields changed while another writer held a copy
    requests,
    faults

settingsVars == <<doc, timeline, writer, written, count, raced, requests, faults>>

Writer == [pc : {"idle", "read", "write", "look", "note"},
           field : Fields,
           clear : BOOLEAN,    \* a revocation
           copy : Doc,         \* the document as it was read
           script : BOOLEAN,   \* scripts/provision-pilot.ts ...
           rotate : BOOLEAN,   \* ... with --rotate-secret
           ack : BOOLEAN,      \* ... with --auto-ack
           looked : Nat]       \* changes of the secret when it looked for one

IdleWriter == [pc |-> "idle", field |-> "rera", clear |-> FALSE, copy |-> Unset,
               script |-> FALSE, rotate |-> FALSE, ack |-> FALSE, looked |-> 0]

SettingsTypeOK ==
    /\ doc \in Doc
    /\ timeline \in [Audited -> Nat]
    /\ writer \in [Writers -> Writer]
    /\ written \in Doc
    /\ count \in [Fields -> Nat]
    /\ raced \subseteq Fields
    /\ requests \in 0..MaxRequests
    /\ faults \in 0..MaxFaults

-----------------------------------------------------------------------------
WriterAt(w, pc) == writer[w].pc = pc

\* The value of f after its next change: appended to the keys there were, or new.
Changed(f, old) == IF f = "apiKeys" THEN old \cup {count[f] + 1} ELSE {count[f] + 1}

\* What a change of f to value means for the history; only a list keeps what an
\* earlier race did to it.
Remember(f, value, others) ==
    /\ count' = [count EXCEPT ![f] = @ + 1]
    /\ written' = [written EXCEPT ![f] = value]
    /\ raced' = IF \E v \in others : WriterAt(v, "write") THEN raced \cup {f}
                ELSE IF f = "apiKeys" THEN raced ELSE raced \ {f}

SettingsInit ==
    /\ doc = Unset
    /\ timeline = [f \in Audited |-> 0]
    /\ writer = [w \in Writers |-> IdleWriter]
    /\ written = Unset
    /\ count = [f \in Fields |-> 0]
    /\ raced = {}
    /\ requests = 0
    /\ faults = 0

-----------------------------------------------------------------------------
\* A bare assignment, as linkPlatformNumberAction once had it.
MergeWipes(f) ==
    /\ requests < MaxRequests
    /\ requests' = requests + 1
    /\ doc' = [Unset EXCEPT ![f] = Changed(f, {})]
    /\ Remember(f, Changed(f, {}), Writers)
    /\ UNCHANGED <<timeline, writer, faults>>

\* `||` on a document that is no object yet gives an array.
MergeArray(f) ==
    /\ requests < MaxRequests
    /\ requests' = requests + 1
    /\ doc' = IF doc = Unset THEN <<Changed(f, {})>>
              ELSE [doc EXCEPT ![f] = Changed(f, {})]
    /\ Remember(f, Changed(f, {}), Writers)
    /\ UNCHANGED <<timeline, writer, faults>>

\* mergeWorkspaceSettings: updatePipelineSettingsAction, linkPlatformNumberAction.
Merge(f) ==
    /\ requests < MaxRequests
    /\ requests' = requests + 1
    /\ doc' = [doc EXCEPT ![f] = Changed(f, {})]
    /\ Remember(f, Changed(f, {}), Writers)
    /\ UNCHANGED <<timeline, writer, faults>>

\* createIngestSecret, revokeIngestSecret, setAutoAck, createApiKey.
Start(w, f, clear) ==
    /\ requests < MaxRequests
    /\ requests' = requests + 1
    /\ WriterAt(w, "idle")
    /\ clear => f = "secret"
    /\ writer' = [writer EXCEPT ![w] = [IdleWriter EXCEPT !.pc = "read", !.field = f,
                                                          !.clear = clear]]
    /\ UNCHANGED <<doc, timeline, written, count, raced, faults>>

\* The script has the document from its update of the workspace's name, and
\* writes it back if it was given a RERA number.
StartScript(w, rera, rotate, ack) ==
    /\ requests < MaxRequests
    /\ requests' = requests + 1
    /\ WriterAt(w, "idle")
    /\ writer' = [writer EXCEPT ![w] =
           [IdleWriter EXCEPT !.pc = IF rera THEN "write" ELSE "look",
                              !.copy = IF rera THEN doc ELSE Unset,
                              !.script = TRUE, !.rotate = rotate, !.ack = ack]]
    /\ UNCHANGED <<doc, timeline, written, count, raced, faults>>

Read(w) ==
    /\ WriterAt(w, "read")
    /\ writer' = [writer EXCEPT ![w].pc = "write", ![w].copy = doc]
    /\ UNCHANGED <<doc, timeline, written, count, raced, requests, faults>>

\* A revocation that tells nobody.
WriteSilently(w) ==
    LET f == writer[w].field
        value(old) == IF writer[w].clear THEN {} ELSE Changed(f, old)
    IN  /\ WriterAt(w, "write")
        /\ doc' = [writer[w].copy EXCEPT ![f] = value(@)]
        /\ Remember(f, value(written[f]), Writers \ {w})
        /\ writer' = [writer EXCEPT ![w].pc =
               IF f = "rera" THEN "look" ELSE IF writer[w].clear THEN "idle" ELSE "note",
               ![w].copy = Unset]
        /\ UNCHANGED <<timeline, requests, faults>>

\* workspace.update: the copy with one field changed replaces the document.
Write(w) ==
    LET f == writer[w].field
        value(old) == IF writer[w].clear THEN {} ELSE Changed(f, old)
    IN  /\ WriterAt(w, "write")
        /\ doc' = [writer[w].copy EXCEPT ![f] = value(@)]
        /\ Remember(f, value(written[f]), Writers \ {w})
        /\ writer' = [writer EXCEPT ![w].pc = IF f = "rera" THEN "look" ELSE "note",
                                    ![w].copy = Unset]
        /\ UNCHANGED <<timeline, requests, faults>>

\* A script that mints a secret whenever it runs.
LookNowhere(w) ==
    /\ WriterAt(w, "look")
    /\ writer' = [writer EXCEPT ![w].pc = "read", ![w].field = "secret",
                                ![w].looked = count["secret"]]
    /\ UNCHANGED <<doc, timeline, written, count, raced, requests, faults>>

\* The script mints a secret if there is none or it is to rotate it, and leaves
\* it alone otherwise.
Look(w) ==
    /\ WriterAt(w, "look")
    /\ writer' =
          IF doc["secret"] = {} \/ writer[w].rotate
          THEN [writer EXCEPT ![w].pc = "read", ![w].field = "secret",
                              ![w].looked = count["secret"]]
          ELSE IF writer[w].ack
          THEN [writer EXCEPT ![w].pc = "read", ![w].field = "autoAck"]
          ELSE [writer EXCEPT ![w] = IdleWriter]
    /\ UNCHANGED <<doc, timeline, written, count, raced, requests, faults>>

\* activity.create; a script goes on from the secret to the auto-ack.
Note(w) ==
    LET f == writer[w].field
    IN  /\ WriterAt(w, "note")
        /\ timeline' = [timeline EXCEPT ![f] = @ + 1]
        /\ writer' = IF writer[w].ack /\ f = "secret"
                     THEN [writer EXCEPT ![w].pc = "read", ![w].field = "autoAck"]
                     ELSE [writer EXCEPT ![w] = IdleWriter]
        /\ UNCHANGED <<doc, written, count, raced, requests, faults>>

\* A call throws, or the request or script is killed; what was written stays.
Fail(w) ==
    /\ faults < MaxFaults
    /\ faults' = faults + 1
    /\ ~WriterAt(w, "idle")
    /\ writer' = [writer EXCEPT ![w] = IdleWriter]
    /\ UNCHANGED <<doc, timeline, written, count, raced, requests>>

SettingsNext ==
    \/ \E f \in Merged : Merge(f)
    \/ \E w \in Writers :
         \/ \E f \in Audited, clear \in BOOLEAN : Start(w, f, clear)
         \/ \E rera, rotate, ack \in BOOLEAN : StartScript(w, rera, rotate, ack)
         \/ Read(w) \/ Write(w) \/ Look(w) \/ Note(w) \/ Fail(w)

SettingsSpec == SettingsInit /\ [][SettingsNext]_settingsVars

-----------------------------------------------------------------------------
(* Properties *)

\* A field holds what was last written to it, and apiKeys every key ever handed
\* out, unless it was changed while another request held a copy of the document:
\* neither the parts of one key, nor keys of features that know nothing of one
\* another, are lost in any other way, and a later write repairs what a race did.
LastWriteStands == \A f \in Fields \ raced : doc[f] = written[f]

\* Setting a workspace up again, without --rotate-secret, takes no secret away
\* from the portals that use it, except one that was minted after the script had
\* looked, or that a race of other writers had brought back.
ScriptKeepsSecret ==
    [][\A w \in Writers :
          /\ WriterAt(w, "write") /\ writer'[w].pc = "note"
          /\ writer[w].script /\ ~writer[w].rotate /\ writer[w].field = "secret"
          => \/ doc["secret"] = {}
             \/ count["secret"] > writer[w].looked
             \/ "secret" \in raced]_settingsVars

\* The timeline tells of every change of a credential or of the auto-ack once its
\* request is over, a failed call or kill costs one activity at most, and it tells
\* of no change that was not made.
AuditComplete ==
    \A f \in Audited :
        /\ timeline[f] <= count[f]
        /\ count[f] <= timeline[f] + faults
                       + Cardinality({w \in Writers : WriterAt(w, "note") /\ writer[w].field = f})

\* What modules/workspace/settings-json.ts says of all writers: "writers touching
\* different keys can no longer erase each other".  Only the merging ones cannot.
NothingErased == doc = written
=============================================================================
