------------------------------ MODULE AcpiTable ------------------------------
(***************************************************************************)
(* The table "MYTB" on its way from a UEFI application to sysfs: MyAddAcpi *)
(* (edk2/MyAddAcpiPkg/MyAddAcpi.c) builds and installs it, MyAcpiView      *)
(* (edk2/MyAcpiViewPkg/MyAcpiView.c) lists the tables and tries to change  *)
(* two of them, and after the boot the module mytb_reader                  *)
(* (kvm/linux-5.15.178/drivers/acpi/mytb_reader.c) finds it and shows it.  *)
(*                                                                         *)
(* A field is represented by the sum of its bytes, which is what checksums *)
(* see; message also records whether a null byte ends it.  The root pointer  *)
(* is a sequence of words of four bytes.                                   *)
(***************************************************************************)
EXTENDS Integers, Sequences, FiniteSets, FiniteSetsExt, SequencesExt

CONSTANTS TableSize,   \* sizeof(MY_CUSTOM_ACPI_TABLE) and of mytb_table
          Data1, Data2, Text, \* the sums of the bytes written there
          Firmware,    \* sequences of tables the firmware has of its own
          RootPointer, \* the words of the root pointer: "RSD ", "PTR ", ...
          ConfigTables, \* sequences of entries of the configuration table
          Oems,        \* byte sums of the identification in the header
          InstallBound, LoadBound

\* The tables that there can be.
Tables ==
  [signature : Nat, length : Nat, revision : Nat, checksum : Nat, oem : Nat, oemRevision : Nat,
   creator : Nat, data1 : Nat, data2 : Nat, message : Nat, ended : BOOLEAN]

NoTable == <<>>

VARIABLES boot,    \* "uefi", then "linux"
          oem,     \* the identification the application writes
          app,     \* the step of MyAddAcpi
          pool,    \* the table in the application's memory
          acpi,    \* the tables in the XSDT, in order
          config,  \* the entries of the configuration table: "acpi" or another
          rsdp,    \* the root pointer, to which the "acpi" ones lead
          view,    \* which entry MyAcpiView is to change, 0 if it does not run
          viewSaid, \* what it said last of an entry it has changed
          module,  \* the step of mytb_reader
          mytb,    \* the index of the table it uses, 0 for NULL
          kobj, attrs, \* its directory and its files exist
          gets,    \* acpi_get_table calls that are not put
          installs, loads, \* up to InstallBound and LoadBound
          shownField \* what was read last: a field and its value

viewVars == <<config, rsdp, view, viewSaid>>
uefiVars == <<oem, app, pool, acpi, viewVars, installs>>
modVars == <<module, mytb, kobj, attrs, gets, loads, shownField>>
acpiVars == <<boot, uefiVars, modVars>>

WordSize == 4

\* The sum of all bytes of a table.
ByteSum(t) ==
  (t.signature + t.length + t.revision + t.checksum + t.oem + t.oemRevision + t.creator
   + t.data1 + t.data2 + t.message) % 256

\* The firmware's tables have their checksums, and none carries the
\* identification of the application; "PTR " is no length of a root pointer.
FirmwareSound ==
  /\ {TableSize, Data1, Data2, Text, InstallBound, LoadBound} \cup Oems \subseteq Nat
  /\ Firmware \subseteq Seq(Tables)
  /\ RootPointer \in Seq(Nat) /\ Len(RootPointer) >= 2
  /\ RootPointer[2] > WordSize * Len(RootPointer)
  /\ \A tables \in Firmware : \A i \in DOMAIN tables :
       ByteSum(tables[i]) = 0 /\ tables[i].oem \notin Oems

ASSUME FirmwareSoundHolds == FirmwareSound

AcpiInit ==
  /\ boot = "uefi" /\ app = "idle" /\ pool = NoTable
  /\ acpi \in Firmware /\ oem \in Oems
  /\ config \in ConfigTables /\ rsdp = RootPointer /\ view = 0 /\ viewSaid = "nothing"
  /\ module = "out" /\ mytb = 0 /\ kobj = FALSE /\ attrs = FALSE
  /\ gets = 0 /\ installs = 0 /\ loads = 0 /\ shownField = <<>>

-----------------------------------------------------------------------------
(***************************************************************************)
(* MyAddAcpi                                                               *)
(***************************************************************************)
\* Mutant: a sum of 0 is not considered.
CalculateChecksumMax(t) == Min({255, 256 - ByteSum(t)})

\* The byte that makes the sum of all bytes 0.
CalculateChecksum(t) == (256 - ByteSum(t)) % 256

\* The byte behind a field of so much room, after a string of so many
\* characters and its end were copied into the field.
AsciiStrCpyS(chars, room, next) == IF chars + 1 > room THEN 0 ELSE next

\* CreateCustomAcpiTable: OemRevision is 1 when "MYCUSTOM" is copied into the
\* OemTableId before it, and 28 bytes of the text go into 32 that are zero.
Filled(checksum) ==
  [signature |-> 60, length |-> TableSize, revision |-> 1, checksum |-> checksum, oem |-> oem,
   oemRevision |-> AsciiStrCpyS(8, 8, 1), creator |-> 21, data1 |-> Data1, data2 |-> Data2,
   message |-> Text, ended |-> 28 < 32]

\* AllocateZeroPool may find no memory, and the application ends.
Create(ok) ==
  /\ boot = "uefi" /\ app = "idle" /\ view = 0 /\ installs < InstallBound
  /\ installs' = installs + 1
  /\ IF ok
     THEN pool' = Filled(CalculateChecksum(Filled(0))) /\ app' = "install"
     ELSE UNCHANGED <<pool, app>>
  /\ UNCHANGED <<boot, oem, acpi, viewVars, modVars>>

\* InstallCustomAcpiTable: external, the protocol keeps a copy; or there is no
\* such protocol, or it refuses.
Install(ok) ==
  /\ app = "install"
  /\ acpi' = IF ok THEN Append(acpi, pool) ELSE acpi
  /\ app' = "free"
  /\ UNCHANGED <<boot, oem, pool, viewVars, installs, modVars>>

\* FreePool, on both ways out of UefiMain.
FreePool ==
  /\ app = "free"
  /\ pool' = NoTable
  /\ app' = "idle"
  /\ UNCHANGED <<boot, oem, acpi, viewVars, installs, modVars>>

-----------------------------------------------------------------------------
(***************************************************************************)
(* MyAcpiView.  ChangeACPITable takes the entries of the configuration     *)
(* table for tables: what they lead to is the root pointer.                *)
(***************************************************************************)
\* The listing reads, and then the entries 1 and 2 are to be changed.
View ==
  /\ boot = "uefi" /\ app = "idle" /\ view = 0
  /\ view' = 1
  /\ UNCHANGED <<boot, oem, app, pool, acpi, config, rsdp, viewSaid, installs, modVars>>

\* There is an entry of that number, counted from 0, among those for ACPI.
HasEntry(n) == Len(SelectSeq(config, LAMBDA e : e = "acpi")) > n

\* emptyTable is all zero, its length too, which is what CopyMem goes by.
EmptyLength == 0
CopyMem(n) == [i \in DOMAIN rsdp |-> IF WordSize * i <= n THEN 0 ELSE rsdp[i]]

\* The sum over as many bytes as the second word says: past the end of the
\* root pointer it may be anything, and of no bytes it is 0.
Verdicts(root) ==
  IF root[2] > WordSize * Len(root) THEN {"valid", "invalid"} ELSE {"valid"}

ChangeACPITable ==
  /\ view # 0
  /\ IF HasEntry(view)
     THEN rsdp' = CopyMem(EmptyLength) /\ viewSaid' \in Verdicts(rsdp')
     ELSE UNCHANGED <<rsdp, viewSaid>>
  /\ view' = (view + 1) % 3
  /\ UNCHANGED <<boot, oem, app, pool, acpi, config, installs, modVars>>

\* external: the system boots; the kernel finds its tables through the root.
Boot ==
  /\ boot = "uefi" /\ app = "idle" /\ view = 0
  /\ boot' = "linux"
  /\ acpi' = IF rsdp = RootPointer THEN acpi ELSE <<>>
  /\ UNCHANGED <<oem, app, pool, viewVars, installs, modVars>>

-----------------------------------------------------------------------------
(***************************************************************************)
(* mytb_reader                                                             *)
(***************************************************************************)
Matching == {i \in DOMAIN acpi : acpi[i].signature = 60}

\* acpi_find_mytb_table: the first table of that name, if it is long enough.
\* A table that is too short stays referenced.
FindTable ==
  /\ boot = "linux" /\ module = "out" /\ loads < LoadBound
  /\ loads' = loads + 1
  /\ shownField' = <<>>
  /\ IF Matching = {}
     THEN UNCHANGED <<module, mytb, gets>>
     ELSE /\ gets' = gets + 1
          /\ IF acpi[Min(Matching)].length < TableSize
             THEN UNCHANGED <<module, mytb>>
             ELSE module' = "found" /\ mytb' = Min(Matching)
  /\ UNCHANGED <<boot, uefiVars, kobj, attrs>>

\* kobject_create_and_add, or the module is not loaded after all.
CreateKobj(ok) ==
  /\ module = "found"
  /\ kobj' = ok
  /\ module' = IF ok THEN "kobj" ELSE "out"
  /\ mytb' = IF ok THEN mytb ELSE 0
  /\ UNCHANGED <<boot, uefiVars, attrs, gets, loads, shownField>>

\* sysfs_create_group, or the directory is put.
CreateGroup(ok) ==
  /\ module = "kobj"
  /\ attrs' = ok /\ kobj' = ok
  /\ module' = IF ok THEN "live" ELSE "out"
  /\ mytb' = IF ok THEN mytb ELSE 0
  /\ UNCHANGED <<boot, uefiVars, gets, loads, shownField>>

\* message_show, data1_show, data2_show, signature_show
ShowField(f) ==
  /\ attrs
  /\ shownField' = IF mytb = 0 THEN <<f, -22>> ELSE <<f, acpi[mytb][f]>>
  /\ UNCHANGED <<boot, uefiVars, module, mytb, kobj, attrs, gets, loads>>

\* mytb_reader_exit: the files and the directory go; the module's memory too.
Unload ==
  /\ module = "live"
  /\ attrs' = FALSE /\ kobj' = FALSE
  /\ module' = "out" /\ mytb' = 0
  /\ shownField' = <<>>
  /\ UNCHANGED <<boot, uefiVars, gets, loads>>

AcpiNext ==
  \/ FreePool \/ View \/ ChangeACPITable \/ Boot \/ FindTable \/ Unload
  \/ \E ok \in BOOLEAN : Create(ok) \/ Install(ok) \/ CreateKobj(ok) \/ CreateGroup(ok)
  \/ \E f \in {"signature", "data1", "data2", "message"} : ShowField(f)

AcpiSpec == AcpiInit /\ [][AcpiNext]_acpiVars
-----------------------------------------------------------------------------
\* Every variable has its type.
AcpiTypeOK ==
  /\ boot \in {"uefi", "linux"} /\ app \in {"idle", "install", "free"}
  /\ DOMAIN rsdp = DOMAIN RootPointer
  /\ view \in 0 .. 2 /\ viewSaid \in {"nothing", "valid", "invalid"}
  /\ kobj \in BOOLEAN /\ attrs \in BOOLEAN
  /\ module \in {"out", "found", "kobj", "live"} /\ mytb \in 0 .. Len(acpi)
  /\ gets \in 0 .. LoadBound

\* The table arrives: every table in the XSDT sums to 0 with all its bytes,
\* whatever MyAcpiView tries and however often the module is loaded; looking
\* at the tables leaves the root pointer intact; what the kernel shows is what
\* the application wrote, with a text that is ended, unless the firmware has a
\* table of that name before it; and files exist only while the module has
\* both its directory and a table that is long enough (CreateCustomAcpiTable,
\* ChangeACPITable, acpi_find_mytb_table, mytb_reader_init).
TableArrives ==
  /\ \A i \in DOMAIN acpi : ByteSum(acpi[i]) = 0
  /\ rsdp = RootPointer
  /\ attrs => kobj /\ mytb # 0 /\ acpi[mytb].length >= TableSize
  /\ shownField # <<>> /\ mytb # 0 /\ acpi[mytb].oem = oem =>
       /\ acpi[mytb].ended
       /\ shownField \in {<<"signature", 60>>, <<"data1", Data1>>, <<"data2", Data2>>,
                          <<"message", Text>>}
=============================================================================
