------------------------ MODULE MCOrchestrationEngine ------------------------
(* Small instances of OrchestrationEngine for TLC. *)
EXTENDS OrchestrationEngine, TLC

CONSTANTS create, create2, turn, turn2, empty, d1, d2, d3, d4

\* A project is created; a second command creates the same project;
\* a turn start in the project is decided into an event the shell summary is
\* refreshed by and one it is not; an import of nothing.
MCEventsOf ==
  (create :> <<"project">> @@ create2 :> <<"project">>
     @@ turn :> <<"summary", "thread">> @@ turn2 :> <<"thread", "summary">>
     @@ empty :> <<>>)

MCRequires == (create :> {} @@ create2 :> {} @@ turn :> {create}
     @@ turn2 :> {create} @@ empty :> {})
MCExcludes == (create :> {create2} @@ create2 :> {create} @@ turn :> {}
     @@ turn2 :> {} @@ empty :> {})

\* Which command each caller dispatches: a retry of the turn; two turns and
\* a rival that wants to create the same project; an import of nothing.
Retries == (d1 :> create @@ d2 :> turn @@ d3 :> turn)
Rivals  == (d1 :> create @@ d2 :> turn @@ d3 :> turn2 @@ d4 :> create2)
Empties == (d1 :> create @@ d2 :> empty @@ d3 :> turn)
=============================================================================
