-------------------------------- MODULE Mmio --------------------------------
(***************************************************************************)
(* The MMIO library, mmio.c: a window of physical memory whose bounds are  *)
(* arbitrary, in a mapping whose bounds are those of pages.  Addresses and *)
(* sizes are uintptr_t and size_t, whose sums wrap.                        *)
(***************************************************************************)
EXTENDS Naturals

CONSTANTS
  MmioHandles,    (* mmio_t handles                                        *)
  Word,           (* one more than the greatest uintptr_t                  *)
  Page,           (* sysconf(_SC_PAGESIZE)                                 *)
  Bases, Sizes,   (* windows callers open                                  *)
  Offsets, Lens   (* accesses they make: 1, 2, 4 and 8 are the typed ones  *)

ASSUME WordAssumption ==
  /\ Word \in Nat \ {0} /\ Page \in Nat \ {0}
  /\ Word % Page = 0
  /\ Bases \subseteq 0 .. Word - 1 /\ Sizes \subseteq 0 .. Word - 1
  /\ Offsets \subseteq 0 .. Word - 1 /\ Lens \subseteq 0 .. Word - 1

VARIABLES
  base, size, aligned_base, aligned_size, ptr,    (* the fields of each mmio_t *)
  mapped,         (* kernel: the first address and length it mapped for h  *)
  mmio_got,       (* the physical addresses the last call accessed         *)
  mmio_ret        (* what it returned                                      *)

window   == <<base, size, aligned_base, aligned_size>>
mmioVars == <<window, ptr, mapped, mmio_got, mmio_ret>>

-----------------------------------------------------------------------------
(* Arithmetic *)

Wrapped(n) == n % Word

(* Mutant: the window is taken to begin a page. *)
AlignedBaseAsGiven(b) == b

AlignedBase(b) == b - (b % Page)

AlignedSize(b, s) == Wrapped(s + (b - AlignedBase(b)))

(* Where the window of h begins in its mapping. *)
Shift(h) == base[h] - aligned_base[h]

-----------------------------------------------------------------------------
(* Calls *)

NoMapping == [first |-> 0, length |-> 0]
Nowhere   == [first |-> 0, length |-> 0]

MmioReturn(h, r) ==
  /\ mmio_ret' = [mmio_ret EXCEPT ![h] = r]
  /\ mmio_got' = [mmio_got EXCEPT ![h] = Nowhere]

MmioReturnOnly(h, r) == MmioReturn(h, r) /\ UNCHANGED <<window, ptr, mapped>>

(* The kernel maps whole pages, and none past the end of the address space. *)
Pages(n) == n + ((Page - (n % Page)) % Page)

CanMap(first, length) == length > 0 /\ first + Pages(length) <= Word

(* mmio_open_advanced(), which mmio_open() calls, forgets what the handle held.
   When the mapping fails, ptr stays MAP_FAILED. *)
MmioOpen(h, b, s) ==
  /\ ptr[h] # "mapped"
  /\ base' = [base EXCEPT ![h] = b]
  /\ size' = [size EXCEPT ![h] = s]
  /\ aligned_base' = [aligned_base EXCEPT ![h] = AlignedBase(b)]
  /\ aligned_size' = [aligned_size EXCEPT ![h] = AlignedSize(b, s)]
  /\ \/ /\ \E p \in {"null", "failed"} : ptr' = [ptr EXCEPT ![h] = p]
        /\ UNCHANGED mapped
        /\ MmioReturn(h, "OPEN")
     \/ /\ CanMap(AlignedBase(b), AlignedSize(b, s))
        /\ ptr' = [ptr EXCEPT ![h] = "mapped"]
        /\ mapped' = [mapped EXCEPT ![h] = [first  |-> AlignedBase(b),
                                             length |-> Pages(AlignedSize(b, s))]]
        /\ MmioReturn(h, "ok")

(* Mutant: the shift of the window is left out of the check. *)
InBoundsUnshifted(h, off, len) == Wrapped(off + len) <= aligned_size[h]

InBounds(h, off, len) == Wrapped(Wrapped(off + Shift(h)) + len) <= aligned_size[h]

(* mmio_read64() .. mmio_write(), ten functions with one check. *)
MmioAccess(h, off, len) ==
  /\ ptr[h] = "mapped"
  /\ \/ ~InBounds(h, off, len) /\ MmioReturnOnly(h, "ARG")
     \/ /\ InBounds(h, off, len)
        /\ mmio_ret' = [mmio_ret EXCEPT ![h] = "ok"]
        /\ mmio_got' = [mmio_got EXCEPT ![h] = [first  |-> mapped[h].first + Wrapped(off + Shift(h)),
                                                 length |-> len]]
        /\ UNCHANGED <<window, ptr, mapped>>

(* Mutant: the handle forgets its mapping before it is unmapped. *)
UnmapsForgetting(h) ==
  /\ ptr' = [ptr EXCEPT ![h] = "null"]
  /\ \/ UNCHANGED mapped /\ MmioReturn(h, "CLOSE")
     \/ mapped' = [mapped EXCEPT ![h] = NoMapping] /\ MmioReturn(h, "ok")

(* munmap() of the mapping of h, which can fail, and then leaves it. *)
Unmaps(h) ==
  \/ MmioReturn(h, "CLOSE") /\ UNCHANGED <<ptr, mapped>>
  \/ /\ ptr' = [ptr EXCEPT ![h] = "null"]
     /\ mapped' = [mapped EXCEPT ![h] = NoMapping]
     /\ MmioReturn(h, "ok")

(* mmio_close(); MAP_FAILED is no address munmap() takes. *)
MmioClose(h) ==
  /\ UNCHANGED window
  /\ \/ ptr[h] = "null" /\ MmioReturnOnly(h, "ok")
     \/ ptr[h] = "failed" /\ MmioReturnOnly(h, "CLOSE")
     \/ ptr[h] = "mapped" /\ Unmaps(h)

-----------------------------------------------------------------------------
(* Specification *)

MmioInit ==
  /\ base = [h \in MmioHandles |-> 0]
  /\ size = [h \in MmioHandles |-> 0]
  /\ aligned_base = [h \in MmioHandles |-> 0]
  /\ aligned_size = [h \in MmioHandles |-> 0]
  /\ ptr = [h \in MmioHandles |-> "null"]
  /\ mapped = [h \in MmioHandles |-> NoMapping]
  /\ mmio_got = [h \in MmioHandles |-> Nowhere]
  /\ mmio_ret = [h \in MmioHandles |-> "none"]

MmioNext ==
  \E h \in MmioHandles :
    \/ \E b \in Bases, s \in Sizes : MmioOpen(h, b, s)
    \/ \E off \in Offsets, len \in Lens : MmioAccess(h, off, len)
    \/ MmioClose(h)

MmioSpec == MmioInit /\ [][MmioNext]_mmioVars

-----------------------------------------------------------------------------
(* Properties *)

(* Every variable keeps its type: the mapping is asked for at the page boundary at
   or less than a page below the window, and no number leaves its word. *)
MmioTypeOK ==
  /\ base \in [MmioHandles -> 0 .. Word - 1] /\ size \in [MmioHandles -> 0 .. Word - 1]
  /\ aligned_base \in [MmioHandles -> 0 .. Word - 1]
  /\ aligned_size \in [MmioHandles -> 0 .. Word - 1]
  /\ \A h \in MmioHandles : aligned_base[h] % Page = 0 /\ Shift(h) \in 0 .. Page - 1
  /\ ptr \in [MmioHandles -> {"null", "failed", "mapped"}]
  /\ mapped \in [MmioHandles -> [first : Nat, length : Nat]]
  /\ mmio_got \in [MmioHandles -> [first : Nat, length : Nat]]
  /\ mmio_ret \in [MmioHandles -> {"none", "ok", "OPEN", "ARG", "CLOSE"}]

(* The sums of the window do not wrap. *)
Fits(h) == size[h] + Shift(h) < Word

(* A mapping exists while, and only while, a handle holds it, through failed opens,
   failed closes and reopenings; the whole window lies in it. *)
MappingsOwned ==
  \A h \in MmioHandles :
    /\ ptr[h] # "mapped" => mapped[h] = NoMapping
    /\ ptr[h] = "mapped" =>
         /\ mapped[h].first = aligned_base[h]
         /\ aligned_size[h] <= mapped[h].length
         /\ mapped[h].first + mapped[h].length <= Word
         /\ Fits(h) => base[h] + size[h] <= mapped[h].first + mapped[h].length

(* docs/mmio.md: "Neither `base` nor `size` need be aligned to a page boundary", and
   offsets are "relative to the base address".  As long as no sum wraps, the check
   on the aligned numbers accepts exactly the accesses inside the window the caller
   asked for, and those are made at the offset from its base. *)
BoundsExact ==
  [][\A h \in MmioHandles :
       ptr[h] = "mapped" /\ Fits(h) =>
         \A off \in Offsets, len \in Lens :
           MmioAccess(h, off, len) /\ off + Shift(h) + len < Word =>
             /\ mmio_ret'[h] = "ok" <=> off + len <= size[h]
             /\ mmio_ret'[h] = "ok" =>
                  mmio_got'[h] = [first |-> base[h] + off, length |-> len]]_mmioVars

=============================================================================
