---------------------------- MODULE ProjectRows ----------------------------
(***************************************************************************)
(* The bundled project data: projects by code, and the contracts, licenses *)
(* and risks that belong to them (schema.sql).  ImportPipeline writes it,  *)
(* ToolCalls reads it.  Nothing deletes a row.                             *)
(*                                                                         *)
(* A key is [entity, code, ext]; a project's ext is Itself.  The content   *)
(* of a project is its name.                                               *)
(***************************************************************************)
EXTENDS Integers, SequencesExt, FiniteSetsExt

CONSTANTS
    Codes,      \* project codes
    Contents,   \* texts; project names are among them
    Exts,       \* external keys of contracts, licenses and risks
    Itself,
    Absent,     \* no such row
    AliasOf     \* partial function from texts to codes: project_aliases

Children == {"contracts", "licenses", "risks"}
Keys ==
    [entity : {"projects"}, code : Codes, ext : {Itself}]
    \cup [entity : Children, code : Codes, ext : Exts]
ProjectKey(c) == [entity |-> "projects", code |-> c, ext |-> Itself]

ASSUME RowsAssumption ==
    /\ Absent \notin Contents
    /\ Itself \notin Exts
    /\ \A t \in DOMAIN AliasOf : AliasOf[t] \in Codes

VARIABLE rows   \* committed: [Keys -> Contents \cup {Absent}]

RowsTypeOK == rows \in [Keys -> Contents \cup {Absent}]

Exists(c) == rows[ProjectKey(c)] # Absent
NameOf(c) == rows[ProjectKey(c)]
=============================================================================
