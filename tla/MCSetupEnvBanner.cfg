SPECIFICATION Spec
CONSTANTS
  tenantCount = 2
  MaxFailures = 1
INVARIANTS
  AnnouncedExtensions
