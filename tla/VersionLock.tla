---------------------------- MODULE VersionLock ----------------------------
(***************************************************************************)
(* The versioned write-locks of 415640/version_types.c.                    *)
(*                                                                         *)
(* A version_lock is one atomic int.  Bit 0 is the lock bit, the other     *)
(* bits are the version: the write_version (always even) of the last       *)
(* transaction that committed a word guarded by the lock.  Every function  *)
(* of the file makes one or two atomic accesses to the int; the operators  *)
(* below are what one access computes from the value it finds.  The        *)
(* modules that use them decide which accesses are separate steps.         *)
(***************************************************************************)
EXTENDS Integers

\* vl & 0x1
IsLocked(vl) == vl % 2 = 1

\* vl >> 1, for the non-negative values a version_lock has before the int
\* wraps around.
Version(vl) == vl \div 2

\* vl | 0x1
SetLockBit(vl) == IF IsLocked(vl) THEN vl ELSE vl + 1

(***************************************************************************)
(* lock_try_acquire: the load of the current value decides whether to give *)
(* up at once; the compare-exchange then succeeds only on that same value. *)
(***************************************************************************)
TryLoadOk(vl) == ~ IsLocked(vl)

\* Faulty variant: the exchange checks only that the lock bit is clear in
\* the value loaded before, and overwrites whatever it finds.
CasOkUnchecked(now, vl) == ~ IsLocked(vl)

CasOk(now, vl) == now = vl

\* Faulty variant: a plain unlock, as if the int were only a lock.
lock_release_Reset(vl) == 0

\* lock_release: atomic_fetch_sub(lk, 1), meant for locks the caller owns.
lock_release(vl) == vl - 1

\* Faulty variant: the version is looked at, the lock bit is not.
lock_check_NoLockBit(vl, own_vl) == Version(vl) <= Version(own_vl)

\* lock_check: neither locked nor newer than the caller's read version.
lock_check(vl, own_vl) ==
    /\ ~ IsLocked(vl)
    /\ Version(vl) <= Version(own_vl)

\* lock_check_version: not newer than the caller's read version, whoever
\* holds the lock bit.
lock_check_version(vl, own_vl) == Version(vl) <= Version(own_vl)

\* lock_update_and_release: atomic_store of an already even version.
lock_update_and_release(vl, updated_version) == updated_version
=============================================================================
