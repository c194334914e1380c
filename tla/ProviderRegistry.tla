-------------------------- MODULE ProviderRegistry --------------------------
(***************************************************************************)
(* The provider registry providers/<name>/provider.yaml: one file per      *)
(* provider with its access paths and their qualification, read file by    *)
(* file (ProviderRegistryRepository.list) and changed in place by          *)
(* `provider qualify` (qualify_provider_file, providers/repository.py),    *)
(* which any number of operators may run at once, die in, or race with     *)
(* somebody's editor.                                                      *)
(***************************************************************************)
EXTENDS Naturals, Sequences, FiniteSets

CONSTANTS
    Files,         \* the provider files, <name> for providers/<name>/provider.yaml
    FileOrder,     \* the files in the order of their paths
    Checkout,      \* the registry as it is checked out: file -> content
    FileEdits,     \* what an editor may make of a file: pairs <<file, content>>
    Operators,     \* invocations of `provider qualify`
    Request,       \* what each asks: [file, path, disposition]
    Torn,          \* the content of a file that has been truncated
    Undecided,     \* no qualification
    NoOne,         \* no operator
    MaxChanges     \* bound: edits of files and operators that die

\* A file holds a provider and its access paths; an access path holds the facts a
\* suite reads and its qualification.
PathsIn(content) == DOMAIN content.paths
Dispositions     == {"included", "excluded"}

ASSUME RegistryOK ==
    /\ FileOrder \in Seq(Files)
    /\ \A i, j \in 1..Len(FileOrder) : FileOrder[i] = FileOrder[j] => i = j
    /\ {FileOrder[i] : i \in 1..Len(FileOrder)} = Files
    /\ DOMAIN Checkout = Files
    /\ "paths" \notin DOMAIN Torn
    /\ NoOne \notin Operators
    /\ \A o \in Operators : Request[o].file \in Files /\ Request[o].disposition \in Dispositions
    /\ MaxChanges \in Nat

\* The documents a provider file may be made of, and the providers they name.
Contents  == ({Checkout[f] : f \in Files} \cup {e[2] : e \in FileEdits}) \ {Torn}
Providers == {content.provider : content \in Contents}

\* What ProviderRegistryEntry makes sure of when a document loads.
WellFormed(content) ==
    /\ {"provider", "paths"} \subseteq DOMAIN content
    /\ content.provider \in Providers
    /\ PathsIn(content) # {}
    /\ \A p \in PathsIn(content) :
          /\ "qualification" \in DOMAIN content.paths[p]
          /\ content.paths[p].eligible \in {"yes", "no"}
          /\ content.paths[p].qualification # Undecided
                => content.paths[p].qualification.disposition \in Dispositions

ASSUME ContentsOK == \A content \in Contents : WellFormed(content)

VARIABLES
    registry,    \* the content of every provider file
    opc,         \* where an operator stands
    draft,       \* the content an operator is about to write
    standing,    \* history: path -> the operator whose reported decision stands
    overlapped,  \* history: operators whose file somebody else wrote meanwhile
    changes

registryVars == <<registry, opc, draft, standing, overlapped, changes>>

Decision(o)  == [disposition |-> Request[o].disposition, by |-> o]

RegistryInit ==
    /\ registry = Checkout
    /\ opc = [o \in Operators |-> "ready"]
    /\ draft = [o \in Operators |-> Torn]
    /\ standing = [p \in {Request[o].path : o \in Operators} |-> NoOne]
    /\ overlapped = {}
    /\ changes = 0

\* load_yaml_mapping and ProviderRegistryEntry: an empty document is no mapping.
Loads(content) == content # Torn

-----------------------------------------------------------------------------
(***************************************************************************)
(* qualify_provider_file                                                   *)
(***************************************************************************)
File(o)   == Request[o].file
Path(o)   == Request[o].path
Active(f) == {o \in Operators : File(o) = f /\ opc[o] \notin {"ready", "done"}}

\* Two operators of one file are at work at the same time: history only.
Start(o) ==
    /\ opc[o] = "ready"
    /\ Loads(registry[File(o)])
    /\ opc' = [opc EXCEPT ![o] = "validated"]
    /\ overlapped' = IF Active(File(o)) = {} THEN overlapped
                     ELSE overlapped \cup Active(File(o)) \cup {o}
    /\ UNCHANGED <<registry, draft, standing, changes>>

\* Mutant of Load: the other paths' decisions are not carried over.
LoadAlone(o) ==
    /\ opc[o] = "validated"
    /\ Loads(registry[File(o)])
    /\ Path(o) \in PathsIn(registry[File(o)])
    /\ draft' = [draft EXCEPT ![o] =
          [registry[File(o)] EXCEPT !.paths =
             [p \in PathsIn(registry[File(o)]) |->
                [@[p] EXCEPT !.qualification =
                   IF p = Path(o) THEN Decision(o) ELSE Undecided]]]]
    /\ opc' = [opc EXCEPT ![o] = "loaded"]
    /\ UNCHANGED <<registry, standing, overlapped, changes>>

\* The file is read a second time, and the decision is put into what was read.
Load(o) ==
    /\ opc[o] = "validated"
    /\ Loads(registry[File(o)])
    /\ Path(o) \in PathsIn(registry[File(o)])
    /\ draft' = [draft EXCEPT ![o] =
          [registry[File(o)] EXCEPT !.paths[Path(o)].qualification = Decision(o)]]
    /\ opc' = [opc EXCEPT ![o] = "loaded"]
    /\ UNCHANGED <<registry, standing, overlapped, changes>>

\* The file does not load, or knows no such access path.
Refuse(o) ==
    /\ \/ opc[o] \in {"ready", "validated", "written"} /\ ~Loads(registry[File(o)])
       \/ opc[o] = "validated" /\ Loads(registry[File(o)])
            /\ Path(o) \notin PathsIn(registry[File(o)])
    /\ opc' = [opc EXCEPT ![o] = "done"]
    /\ draft' = [draft EXCEPT ![o] = Torn]
    /\ UNCHANGED <<registry, standing, overlapped, changes>>

\* write_text opens the file, which empties it, and then writes.
Truncate(o) ==
    /\ opc[o] = "loaded"
    /\ registry' = [registry EXCEPT ![File(o)] = Torn]
    /\ opc' = [opc EXCEPT ![o] = "truncated"]
    /\ standing' = [standing EXCEPT ![Path(o)] = NoOne]
    /\ UNCHANGED <<draft, overlapped, changes>>

Fill(o) ==
    /\ opc[o] = "truncated"
    /\ registry' = [registry EXCEPT ![File(o)] = draft[o]]
    /\ opc' = [opc EXCEPT ![o] = "written"]
    /\ UNCHANGED <<draft, standing, overlapped, changes>>

\* The file is loaded once more and the decision reported: "Qualified Provider".
Report(o) ==
    /\ opc[o] = "written"
    /\ Loads(registry[File(o)])
    /\ opc' = [opc EXCEPT ![o] = "done"]
    /\ draft' = [draft EXCEPT ![o] = Torn]
    /\ standing' = [standing EXCEPT ![Path(o)] =
                       IF o \in overlapped THEN NoOne ELSE o]
    /\ UNCHANGED <<registry, overlapped, changes>>

Die(o) ==
    /\ changes < MaxChanges
    /\ changes' = changes + 1
    /\ opc[o] \notin {"ready", "done"}
    /\ opc' = [opc EXCEPT ![o] = "done"]
    /\ draft' = [draft EXCEPT ![o] = Torn]
    /\ UNCHANGED <<registry, standing, overlapped>>

\* Somebody saves another version of a file; what an editor does to decisions is
\* its own business.
EditFile ==
    /\ changes < MaxChanges
    /\ changes' = changes + 1
    /\ \E e \in FileEdits :
          /\ registry' = [registry EXCEPT ![e[1]] = e[2]]
          /\ standing' = [p \in DOMAIN standing |->
                IF \E o \in Operators : File(o) = e[1] /\ Path(o) = p
                THEN NoOne ELSE standing[p]]
          /\ overlapped' = overlapped \cup Active(e[1])
    /\ UNCHANGED <<opc, draft>>

RegistryNext ==
    \/ \E o \in Operators :
          \/ Start(o) \/ Load(o) \/ Refuse(o) \/ Truncate(o) \/ Fill(o)
          \/ Report(o) \/ Die(o)
    \/ EditFile

-----------------------------------------------------------------------------
(***************************************************************************)
(* What a reader makes of the registry                                     *)
(***************************************************************************)
\* list: every file must load, and no provider or access path may come twice.
\* `records` maps each file that was read to its content.
NoDuplicates(records) ==
    \A f, g \in DOMAIN records : f # g =>
        /\ records[f].provider # records[g].provider
        /\ PathsIn(records[f]) \cap PathsIn(records[g]) = {}

\* check_frozen_cohort: no access path without a terminal decision.
Frozen(records) ==
    \A f \in DOMAIN records : \A p \in PathsIn(records[f]) :
        records[f].paths[p].qualification # Undecided

AllPaths(records)      == UNION {PathsIn(records[f]) : f \in DOMAIN records}
FileOfPath(records, p) == CHOOSE f \in DOMAIN records : p \in PathsIn(records[f])
Entry(records, p)      == records[FileOfPath(records, p)].paths[p]
ProviderOf(records, p) == records[FileOfPath(records, p)].provider

IncludedIn(records, p) ==
    /\ Entry(records, p).qualification # Undecided
    /\ Entry(records, p).qualification.disposition = "included"

-----------------------------------------------------------------------------
(***************************************************************************)
(* Properties                                                              *)
(***************************************************************************)
\* qualify_provider_file takes no lock, so of two that overlap one may undo the
\* other.  What it does promise: a decision reported by an operator whom nobody
\* overlapped is in the file, whatever others decided about other access paths
\* before and since, unless the file is being written or its writer died.
DecisionsStand ==
    \A o \in Operators :
        standing[Path(o)] = o =>
            \/ registry[File(o)] = Torn
            \/ /\ Path(o) \in PathsIn(registry[File(o)])
               /\ registry[File(o)].paths[Path(o)].qualification = Decision(o)
=============================================================================
