CONSTANTS
  MaxRequests = 1
  Attempts = 1
SPECIFICATION PatientSpec
PROPERTY
  ServerEndsWithEngine
