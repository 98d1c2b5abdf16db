--------------------------- MODULE ProjectDocuments ---------------------------
(***************************************************************************)
(* The documents callers maintain beside their work: the project's main    *)
(* file, its tree of knowledge sections, and the proposals of older        *)
(* clients.  updateProjectMain and upsertKnowledgeSection compare the      *)
(* revision their caller expects with the record they read, and replace    *)
(* the record later; a section is linked into its parent, and unlinked     *)
(* from the previous one, by further reads and publications.  The calls    *)
(* are interleaved with those of WorkMemory, whose work items must be open *)
(* and whose packets go to the same queue.                                 *)
(***************************************************************************)
EXTENDS WorkMemory

CONSTANTS
    Project, Sections,   \* the project record and the keys of its sections
    Versions,            \* contents of a document
    Proposals,           \* payloads of legacy proposals
    MaxSubmitted         \* bound on the packets of one proposal

Docs == Sections \cup {Project}

ASSUME DocumentAssumption ==
    Project \notin Sections /\ "none" \notin Versions /\ MaxSubmitted \in Nat

VARIABLES
    doc,        \* document -> revision, parent_ref and the sections it links
    proposed,   \* proposal -> number of maintenance_change_packet records
    setAt       \* history: document -> knowledge revision its content is of

docVars == <<doc, proposed, setAt>>
vars == <<rev, workVars, callVars, workload, calls, edits, failures, solo, docVars>>

Absent == [revision |-> "none", parent |-> Project, links |-> {}]
Present(d) == doc[d] # Absent

Init ==
    /\ WorkInit
    /\ doc = [d \in Docs |-> IF d = Project /\ \E w \in Works : work[w].status # "absent"
                             THEN [Absent EXCEPT !.revision = "new"] ELSE Absent]
    /\ proposed = [p \in Proposals |-> 0]
    /\ setAt = [d \in Docs |-> 0]

-----------------------------------------------------------------------------
\* upsertRecord: the whole document, whatever it is by now.
Replace(d, record) ==
    /\ doc' = [doc EXCEPT ![d] = record]
    /\ setAt' = IF record.revision = doc[d].revision THEN setAt ELSE [setAt EXCEPT ![d] = rev + 1]
    /\ rev' = rev + 1

\* The reads of a call that fetches a document and will write it back.
Fetch(i, place, f, d) == GoTo(i, place, [f EXCEPT !.copy = doc[d]])

BeginBootstrap(i) ==
    /\ ~Present(Project)
    /\ Begin(i, [op |-> "bootstrap"], "bootstrap", NoFrame)
    /\ UNCHANGED <<workVars, docVars>>

Bootstrap(i) ==
    /\ pc[i] = "bootstrap"
    /\ Replace(Project, [Absent EXCEPT !.revision = "new"])
    /\ Return(i)
    /\ UNCHANGED <<workVars, failures, solo, proposed>>

\* The expected revision is the caller's, of whenever it read the document.
Unchecked(d, expected) == TRUE
Expected(d, expected) == doc[d].revision = expected

BeginMain(i) ==
    \E w \in Works, v \in Versions, expected \in Versions \cup {"new"} :
        /\ Present(Project) /\ Open(w)
        /\ v # doc[Project].revision /\ Expected(Project, expected)
        /\ Begin(i, [op |-> "main", expected |-> expected], "main",
                 [NoFrame EXCEPT !.copy = [doc[Project] EXCEPT !.revision = v]])
        /\ UNCHANGED <<workVars, docVars>>

UpdateMain(i) ==
    /\ pc[i] = "main"
    /\ Replace(Project, frame[i].copy)
    /\ Return(i)
    /\ UNCHANGED <<workVars, failures, solo, proposed>>

\* A section keeps the links it had; the parent is any other document.
BeginSection(i) ==
    \E w \in Works, d \in Sections, p \in Docs, v \in Versions,
       expected \in Versions \cup {"none"} :
        /\ Present(Project) /\ Open(w) /\ Present(p) /\ p # d
        /\ <<v, p>> # <<doc[d].revision, doc[d].parent>> /\ Expected(d, expected)
        /\ Begin(i, [op |-> "section", expected |-> expected, doc |-> d,
                     from |-> IF Present(d) THEN doc[d].parent ELSE p, to |-> p], "section",
                 [NoFrame EXCEPT !.copy = [revision |-> v, parent |-> p, links |-> doc[d].links]])
        /\ UNCHANGED <<workVars, docVars>>

UpsertSection(i) ==
    /\ pc[i] = "section"
    /\ Replace(call[i].doc, frame[i].copy)
    /\ GoTo(i, "unlink", frame[i])
    /\ UNCHANGED <<workVars, proposed>>

\* updateSectionParentLinks: the previous parent first, if there is another.
Moves(c) == c.from # c.to

ReadPrevious(i) ==
    /\ pc[i] = "unlink"
    /\ IF Moves(call[i]) THEN Fetch(i, "unlinked", frame[i], call[i].from)
                         ELSE GoTo(i, "link", frame[i])
    /\ UNCHANGED <<rev, workVars, docVars>>

Unlink(i) ==
    /\ pc[i] = "unlinked"
    /\ Replace(call[i].from, [frame[i].copy EXCEPT !.links = @ \ {call[i].doc}])
    /\ GoTo(i, "link", frame[i])
    /\ UNCHANGED <<workVars, proposed>>

ReadParent(i) ==
    /\ pc[i] = "link"
    /\ Fetch(i, "linked", frame[i], call[i].to)
    /\ UNCHANGED <<rev, workVars, docVars>>

Link(i) ==
    /\ pc[i] = "linked"
    /\ Replace(call[i].to, [frame[i].copy EXCEPT !.links = @ \cup {call[i].doc}])
    /\ GoTo(i, "audit", frame[i])
    /\ UNCHANGED <<workVars, proposed>>

\* The section is read again and written back with the id of its audit event.
ReadWritten(i) ==
    /\ pc[i] = "audit"
    /\ Fetch(i, "audited", frame[i], call[i].doc)
    /\ UNCHANGED <<rev, workVars, docVars>>

NoteAudit(i) ==
    /\ pc[i] = "audited"
    /\ Replace(call[i].doc, frame[i].copy)
    /\ Return(i)
    /\ UNCHANGED <<workVars, failures, solo, proposed>>

\* enqueueLegacyProposal: the look-up, then a record with a fresh id.
BeginProposalAgain(i) ==
    \E p \in Proposals :
        /\ proposed[p] < MaxSubmitted
        /\ Begin(i, [op |-> "propose", proposal |-> p], "propose", NoFrame)
        /\ UNCHANGED <<workVars, docVars>>
BeginProposal(i) ==
    \E p \in Proposals :
        /\ proposed[p] = 0
        /\ Begin(i, [op |-> "propose", proposal |-> p], "propose", NoFrame)
        /\ UNCHANGED <<workVars, docVars>>

Propose(i) ==
    /\ pc[i] = "propose"
    /\ proposed' = [proposed EXCEPT ![call[i].proposal] = @ + 1]
    /\ rev' = rev + 1
    /\ Return(i)
    /\ UNCHANGED <<workVars, failures, solo, doc, setAt>>

Next ==
    \/ Present(Project) /\ WorkNext /\ UNCHANGED docVars
    \/ \E i \in Callers :
          \/ BeginBootstrap(i) \/ Bootstrap(i) \/ BeginMain(i) \/ UpdateMain(i)
          \/ BeginSection(i) \/ UpsertSection(i) \/ ReadPrevious(i) \/ Unlink(i)
          \/ ReadParent(i) \/ Link(i) \/ ReadWritten(i) \/ NoteAudit(i)
          \/ BeginProposal(i) \/ Propose(i)

Spec == Init /\ [][Next]_vars

-----------------------------------------------------------------------------
(* Properties *)

\* A document's content gives way only to a writer that named it as the one it
\* expects, or to a call that began before it was stored: an old expected
\* revision alone never overwrites a newer document, its links included.
OverwrittenOnlyByOverlap ==
    [][\A d \in Docs : Present(d) /\ doc'[d].revision # doc[d].revision =>
          \E i \in Callers :
             /\ pc'[i] # pc[i]
             /\ \/ frame[i].since < setAt[d]
                \/ call[i].op \in {"main", "section"} /\ call[i].expected = doc[d].revision]_vars

\* When calls have followed one another and none was cut short, then between two
\* of them every section is linked by exactly its parent, a proposal has at most
\* one packet, and whatever was stored has its packet in the queue.
SequentialIsExact ==
    solo /\ (\A i \in Callers : pc[i] = "idle") =>
        /\ \A s \in Sections, d \in Docs :
              s \in doc[d].links <=> Present(s) /\ doc[s].parent = d
        /\ \A p \in Proposals : proposed[p] <= 1
        /\ \A w \in Works : work[w].hash # NoHash => <<w, work[w].hash>> \in queued
        /\ artifacts \subseteq queued
        /\ \A c \in Checkpoints : checkpoints[c] # NoCall => \E w \in Works : <<w, c>> \in queued
=============================================================================
