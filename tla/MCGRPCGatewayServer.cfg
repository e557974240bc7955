\* Serve with the grpc-gateway HTTP server: the caller may cancel ctx at any
\* point of start-up, up to three requests arrive and may never complete.
CONSTANTS
    MaxRequests = 3
SPECIFICATION Spec
PROPERTY ShutdownCompletes
