-------------------------- MODULE MCServerEntities --------------------------
(* A small instance of ServerEntities for TLC: a creature and a box, an    *)
(* item that launches rockets and one rocket.                              *)
EXTENDS ServerEntities

CONSTANTS stalker, box, launcher, medkit, rocket

MCHolders == {stalker, box}
MCRefusers == {stalker}
MCItems == {launcher, medkit}
MCLaunchers == {launcher}
MCRockets == {rocket}
=============================================================================
