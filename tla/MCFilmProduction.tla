-------------------------- MODULE MCFilmProduction --------------------------
(***************************************************************************)
(* FilmProduction for TLC: two roles, one with the name of a preset for    *)
(* its voice, one with a description.                                      *)
(***************************************************************************)
EXTENDS FilmProduction

MCRoles == {"ARIA", "KAI"}
MCVoiceOf == [role \in MCRoles |->
                IF role = "ARIA" THEN Named("casual_female")
                ELSE [form |-> "words", hints |-> {"male", "casual"}]]
=============================================================================
