SPECIFICATION Spec
CONSTANT Layouts <- SomeLayouts
INVARIANTS TypeOK Aligned FitsPacket EndsExact Advances
PROPERTIES ClusterSent
