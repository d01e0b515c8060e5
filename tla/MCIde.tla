-------------------------------- MODULE MCIde --------------------------------
(***************************************************************************)
(* Ide on machines with small drives: one for each addressing, one past    *)
(* the 28-bit limit of 128 sectors, a packet drive, one that is neither,   *)
(* and one that does not answer IDENTIFY.  The boot is run with packet     *)
(* drives only, as on a machine with nothing but a CD-ROM.                 *)
(***************************************************************************)
EXTENDS Ide

Ata(lba, ext, size) == [type |-> "ATA", lba |-> lba, ext |-> ext, size |-> size]

MCBootModels == {NoDrive, [type |-> "ATAPI"]}

MCModels == {NoDrive, Ata(FALSE, FALSE, 91), Ata(TRUE, TRUE, 200),
             [type |-> "ATAPI"], [type |-> "other"], [type |-> "mute"]}
=============================================================================
