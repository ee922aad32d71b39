---------------------------- MODULE MCAllocator ----------------------------
EXTENDS AllocatorLoops, AllocatorPages, Hob, SequencesExt

Memory(start, length) ==
  [type |-> "RESOURCE_DESCRIPTOR", system_memory |-> TRUE, physical_start |-> start, resource_length |-> length]

Other == {[type |-> "CPU"], [Memory(20, 4) EXCEPT !.system_memory = FALSE]}

\* One region more than there are slots, out of address order, three of them
\* touching, so that freeing merges across them and slots come free; the lowest
\* starts at the 1 MiB mark, where generic requests are not served.  Pages are of two
\* bytes, and the last region has half a page more.
MCHobs ==
  SetToSeq(Other) \o
  <<Memory(12, 2), Memory(2, 4), [type |-> "MEMORY_ALLOCATION", memory_type |-> "Data",
                                  memory_base_address |-> 6, memory_length |-> 3],
    Memory(6, 2), Memory(8, 2), Memory(16, 3), [type |-> "END_OF_HOB_LIST"]>>

MCRegions == MemoryRegions(MCHobs)

\* One region, for longer histories.
OneRegion == MemoryRegions(<<Memory(2, 8), [type |-> "END_OF_HOB_LIST"]>>)

MCTypes == {"Reserved", "Conventional", "Data", "RuntimeData"}

RequestsFor(how, types, counts, pages, aligned) ==
  [how : {how}, type : types, count : counts, page : pages, aligned : aligned]

MCRequests ==
  Range(MemoryAllocations(MCHobs))
    \cup RequestsFor("Address", {"Data"}, 0 .. 2, 1 .. 5, BOOLEAN)
    \cup RequestsFor("Any", {"RuntimeData"}, 0 .. 2, {0}, {TRUE})
    \cup RequestsFor("Max", {"Data"}, 1 .. 2, {3, 5}, {TRUE})

MCFreeAddresses == 1 .. 5

NoMaps == {}

MCMaps == {<<[start |-> 4, virt |-> 1]>>,
           <<[start |-> 1, virt |-> 1], [start |-> 5, virt |-> 1], [start |-> 4, virt |-> 0]>>}
=============================================================================
